---- MODULE Spec2Model ----
(***************************************************************************)
(* The bcm2835 audio VCHI channel (bcm2835-audio/bcm2835-vchiq.c): the     *)
(* channel instance, the submitting threads (send_msg, write, open) and    *)
(* the completion dispatch callback, as one state machine (Spec).          *)
(*                                                                         *)
(* The video ports of the codec (bcm2835-codec/bcm2835-v4l2-codec.c) and   *)
(* of the ISP (bcm2835-isp/bcm2835-v4l2-isp.c): buffers queued, submitted, *)
(* returned through the buffer callbacks, and the drain of stop_streaming  *)
(* (VideoSpec).                                                            *)
(***************************************************************************)
EXTENDS Integers, Sequences, FiniteSets, TLC

(* ------------------------------ bounds --------------------------------- *)
NThreads == 2       \* submitting threads
MaxOps == 2         \* API calls started after a successful open
MaxCb == 1          \* invocations of the dispatch callback
MaxFails == 1       \* transport / allocation calls that fail
MaxChunks == 2      \* a write buffer spans at most this many full packets
MaxOpens == 1       \* calls of bcm2835_audio_open
NBufs == 2          \* buffers of one video queue
MaxQueued == 2      \* buffers queued (VIDIOC_QBUF) on the video queues
MaxEvents == 1      \* events (cmd != 0) the remote side sends on the ports
MaxCmds == 2        \* STOP commands (VIDIOC_DECODER_CMD, VIDIOC_ENCODER_CMD)

(* ------------------------- program constants --------------------------- *)
EIO == 5
ETIMEDOUT == 110
ENOMEM == 12
EPERM == 1
MIN_PEER_VERSION == 2
INLINE_MAX_PACKET == 4000
BCM2835_AUDIO_WRITE_COOKIE1 == 66 * 16777216 + 67 * 65536 + 77 * 256 + 65
BCM2835_AUDIO_WRITE_COOKIE2 == 68 * 16777216 + 65 * 65536 + 84 * 256 + 65
MMAL_BUFFER_HEADER_FLAG_EOS == 1
MMAL_BUFFER_HEADER_FLAG_KEYFRAME == 8

(* ----------------------------- input sets ------------------------------ *)
Threads == 1..NThreads
PeerVersions == {MIN_PEER_VERSION - 1, MIN_PEER_VERSION}
ResultCodes == {0, 1}
Cookies1 == {BCM2835_AUDIO_WRITE_COOKIE1, BCM2835_AUDIO_WRITE_COOKIE2, 0}
Cookies2 == {BCM2835_AUDIO_WRITE_COOKIE2, BCM2835_AUDIO_WRITE_COOKIE1, 0}
\* write sizes: none, one short packet, MaxChunks full packets, and
\* MaxChunks - 1 full packets followed by one byte
WriteSizes ==
    {0, 1, MaxChunks * INLINE_MAX_PACKET,
     (MaxChunks - 1) * INLINE_MAX_PACKET + 1}
CompleteCounts == {1, INLINE_MAX_PACKET}

Min(a, b) == IF a < b THEN a ELSE b

VARIABLES
    force_bulk,     \* module parameter force_bulk
    instance,       \* alsa_stream->instance: "NULL" or "inst"
    service,        \* instance->vchi_handle: "closed" or "open"
    use_count,      \* vchi_service_use / vchi_service_release balance
    kfree_count,    \* kfree() calls on the instance of the current open
    vchi_mutex,     \* instance->vchi_mutex: the set of its holders
    result,         \* instance->result
    done,           \* instance->msg_avail_comp.done
    max_packet,     \* instance->max_packet
    peer_version,   \* instance->peer_version
    pc,             \* each thread's position
    frame,          \* each thread's call: arguments and locals
    wire,           \* transport calls, in order, since the channel was
                    \* last quiescent (every thread outside the API)
    owed,           \* accepted messages the peer has not answered, by tk
    unwaited,       \* those of them that were sent with wait = false
    last_sig,       \* the RESULT dispatched last: the message it answers
                    \* (its tk; 0: none) and the code it carries
    timed_out,      \* requests (by tk) whose synchronous call timed out
    fifo,           \* bcm2835_playback_fifo invocations: their byte counts
    tickets,        \* number of lock acquisitions so far
    tk,             \* each thread's lock-acquisition number (0: none)
    nops, ncb, nfail, nopen

VARIABLES
    streams,          \* the ports whose queues are exercised
    enabled,          \* port->enabled, per port
    buffers_with_vpu, \* port->buffers_with_vpu, per port
    inflight,         \* the buffers the remote side holds, per port
    ready,            \* the mem2mem ready list of the queue (codec)
    vb2state,         \* the videobuf2 state of each buffer
    vb2flags,         \* the V4L2 flags the callback set on each buffer
    frame_cmplt,      \* frame_cmplt.done, of the codec ctx and the ISP dev
    spc,              \* each queue's position in start / stop_streaming
    drain_timed_out,  \* the drain loop of stop_streaming was left by timeout
    component_enabled,\* ctx->component_enabled (codec)
    component,        \* the remote component is enabled, codec and ISP
    num_streaming,    \* dev->num_streaming (ISP)
    num_buffers,      \* ctx->num_ip_buffers, ctx->num_op_buffers,
                      \* node->sequence
    eos_events,       \* V4L2_EVENT_EOS events queued
    nqueued,          \* buffers queued so far (VIDIOC_QBUF)
    capture_fmt,      \* q_data[V4L2_M2M_DST]: crop, bytesperline, height,
                      \* sizeimage; and ctx->ycbcr_enc
    src_chg_events,   \* V4L2_EVENT_SOURCE_CHANGE events queued
    nevents,          \* events delivered so far, per port
    oops,             \* a callback has faulted in the kernel
    eos_buffer_in_use,\* q_data[V4L2_M2M_SRC].eos_buffer_in_use
    eos_with_vpu,     \* submissions of the EOS buffer the remote side holds
    ncmds             \* STOP commands issued so far

audio == <<force_bulk, instance, service, use_count, kfree_count, vchi_mutex,
           result, done, max_packet, peer_version, pc, frame, wire,
           owed, unwaited, last_sig, timed_out, fifo, tickets, tk,
           nops, ncb, nopen>>

video == <<streams, enabled, buffers_with_vpu, inflight, ready, vb2state,
           vb2flags, frame_cmplt, spc, drain_timed_out, component_enabled,
           component, num_streaming, num_buffers, eos_events, nqueued,
           capture_fmt, src_chg_events, nevents, oops,
           eos_buffer_in_use, eos_with_vpu, ncmds>>

eosb == <<eos_buffer_in_use, eos_with_vpu, ncmds>>

evt == <<capture_fmt, src_chg_events, nevents, oops>>

vars == <<audio, nfail, video>>

chan == <<force_bulk, instance, service, kfree_count, max_packet, peer_version,
          nopen>>
slot == <<result, done, last_sig>>
peer == <<owed, unwaited, fifo, ncb>>

IdleFrame ==
    [api |-> "none", type |-> "none", wait |-> FALSE, arg |-> 0, stage |-> 0,
     err |-> 0, status |-> 0, count |-> 0, off |-> 0]

\* No stream is open and no call has been made.
AudioIdle ==
    /\ instance = "NULL"
    /\ service = "closed"
    /\ use_count = 0
    /\ kfree_count = 0
    /\ vchi_mutex = {}
    /\ result = 0
    /\ done = 0
    /\ max_packet = 0
    /\ peer_version = 0
    /\ pc = [t \in Threads |-> "idle"]
    /\ frame = [t \in Threads |-> IdleFrame]
    /\ wire = <<>>
    /\ owed = {}
    /\ unwaited = {}
    /\ last_sig = [re |-> 0, code |-> 0]
    /\ timed_out = {}
    /\ fifo = <<>>
    /\ tickets = 0
    /\ tk = [t \in Threads |-> 0]
    /\ nops = 0
    /\ ncb = 0
    /\ nfail = 0
    /\ nopen = 0

Ports == {"ip", "op", "isp0", "isp1"}
Bufs == 1..NBufs

\* The capture queue's format before any format-changed event: 16 x 16
\* YUV420.
DefaultCaptureFmt ==
    [crop_width |-> 16, crop_height |-> 16, bytesperline |-> 32,
     height |-> 16, sizeimage |-> 768, ycbcr_enc |-> "DEFAULT"]

\* No queue streams and every buffer is with the application.
VideoIdle ==
    /\ enabled = [p \in Ports |-> FALSE]
    /\ buffers_with_vpu = [p \in Ports |-> 0]
    /\ inflight = [p \in Ports |-> {}]
    /\ ready = [p \in Ports |-> <<>>]
    /\ vb2state = [p \in Ports |-> [b \in Bufs |-> "DEQUEUED"]]
    /\ vb2flags = [p \in Ports |-> [b \in Bufs |-> {}]]
    /\ frame_cmplt = [o \in {"ctx", "dev"} |-> 0]
    /\ spc = [p \in Ports |-> "off"]
    /\ drain_timed_out = [p \in Ports |-> FALSE]
    /\ component_enabled = FALSE
    /\ component = [d \in {"codec", "isp"} |-> FALSE]
    /\ num_streaming = 0
    /\ num_buffers = [p \in Ports |-> 0]
    /\ eos_events = 0
    /\ nqueued = 0
    /\ capture_fmt = DefaultCaptureFmt
    /\ src_chg_events = 0
    /\ nevents = [p \in Ports |-> 0]
    /\ oops = FALSE
    /\ eos_buffer_in_use = FALSE
    /\ eos_with_vpu = 0
    /\ ncmds = 0

Init ==
    /\ force_bulk \in BOOLEAN
    /\ AudioIdle
    /\ VideoIdle
    /\ streams = {}

(* --------------------------- the transport ----------------------------- *)
\* One call of vchi_queue_kernel_message / vchi_bulk_queue_transmit by the
\* thread t: what it carries, and whether the transport accepted it.
WireEntry(t, kind, type, off, len, ok) ==
    [kind |-> kind, type |-> type, t |-> t, tk |-> tk[t],
     off |-> off, len |-> len, ok |-> ok]

\* The transport accepts the call, or (within the failure budget) refuses it.
TransportOutcomes == IF nfail < MaxFails THEN {TRUE, FALSE} ELSE {TRUE}

CountFail(ok) == nfail' = IF ok THEN nfail ELSE nfail + 1

\* What the transport reports for a call it accepted / refused.
TransportStatus(ok) == IF ok THEN 0 ELSE -1

(* ------------------------- lock / unlock ------------------------------- *)
\* mutex_lock() that does not wait for the holder
MutexFree_NoWait == TRUE

\* mutex_lock() returns only when nobody holds the mutex.
MutexFree == vchi_mutex = {}

\* a lock that uses the service without taking the mutex
bcm2835_audio_lock_NoMutex(t) ==
    /\ vchi_mutex' = vchi_mutex
    /\ use_count' = use_count + 1
    /\ tickets' = tickets + 1
    /\ tk' = [tk EXCEPT ![t] = tickets + 1]

\* mutex_lock(&instance->vchi_mutex); vchi_service_use(handle);
bcm2835_audio_lock(t) ==
    /\ MutexFree
    /\ vchi_mutex' = vchi_mutex \cup {t}
    /\ use_count' = use_count + 1
    /\ tickets' = tickets + 1
    /\ tk' = [tk EXCEPT ![t] = tickets + 1]

\* an unlock that leaves the service marked in use
bcm2835_audio_unlock_NoRelease(t) ==
    /\ use_count' = use_count
    /\ vchi_mutex' = vchi_mutex \ {t}
    /\ UNCHANGED <<video, tickets, tk>>

\* vchi_service_release(handle); mutex_unlock(&instance->vchi_mutex);
bcm2835_audio_unlock(t) ==
    /\ use_count' = use_count - 1
    /\ vchi_mutex' = vchi_mutex \ {t}
    /\ UNCHANGED <<video, tickets, tk>>

lockvars == <<vchi_mutex, use_count, tickets, tk>>

(* ---------------- bcm2835_audio_send_msg_locked ------------------------ *)
\* a send that does not arm the completion
Arm_Skipped(t) == UNCHANGED slot

\* if (wait) { instance->result = -1; init_completion(&msg_avail_comp); }
Arm(t) ==
    IF frame[t].wait
      THEN /\ result' = -1
           /\ done' = 0
           /\ UNCHANGED last_sig
      ELSE UNCHANGED slot

\* The error a refused vchi_queue_kernel_message makes send_msg_locked return.
QueueError == -EIO

\* a timed-out wait reported as a generic I/O error
TimeoutError_EIO == -EIO

\* The error a timed-out wait returns.
TimeoutError == -ETIMEDOUT

\* a remote failure reported as a timeout
ResultError_Timeout(r) == IF r # 0 THEN -ETIMEDOUT ELSE 0

\* else if (instance->result) return -EIO;  ...  return 0;
ResultError(r) == IF r # 0 THEN -EIO ELSE 0

\* bcm2835_audio_send_msg: bcm2835_audio_lock(), then send_msg_locked up to
\* the transport call.
SendMsgLock(t) ==
    /\ pc[t] = "sm_lock"
    /\ bcm2835_audio_lock(t)
    /\ Arm(t)
    /\ pc' = [pc EXCEPT ![t] = "sml_queue"]
    /\ UNCHANGED <<video, chan, frame, wire, timed_out, peer, nops, nfail>>

\* What the API function that called send_msg does once send_msg has
\* unlocked and returned err: set_params goes on to CONFIG when its set_ctls
\* returned 0, open goes on to the peer version or to deinit, close goes on
\* to deinit whatever err is, the other functions return err.
AfterSendMsg(t, err) ==
    IF frame[t].api = "set_params" /\ frame[t].stage = 1 /\ err = 0
      THEN /\ frame' = [frame EXCEPT ![t].stage = 2, ![t].type = "CONFIG"]
           /\ pc' = [pc EXCEPT ![t] = "sm_lock"]
      ELSE /\ frame' = [frame EXCEPT ![t].err = err]
           /\ pc' = [pc EXCEPT ![t] =
                  IF frame[t].api = "open"
                    THEN IF err < 0 THEN "open_deinit" ELSE "open_ver_lock"
                    ELSE IF frame[t].api = "close" THEN "close_deinit"
                    ELSE "return"]

\* count = size;
TransferCount(size) == size

\* the test of max_packet negated
PayloadPath_Negated(mp) == IF mp # 0 THEN "wr_bulk" ELSE "wr_chunk"

\* if (!instance->max_packet) bulk transfer, else the chunk loop
PayloadPath(mp) == IF mp = 0 THEN "wr_bulk" ELSE "wr_chunk"

\* status = vchi_queue_kernel_message(handle, m, sizeof(*m));
\* if (status) return -EIO;  if (!wait) return 0;  else wait.
\* In bcm2835_audio_write a failed control send goes to unlock and returns,
\* an accepted one goes on with count = size.
SendQueue(t) ==
    /\ pc[t] = "sml_queue"
    /\ \E ok \in TransportOutcomes :
         /\ CountFail(ok)
         /\ wire' = Append(wire,
                WireEntry(t, "msg", frame[t].type, 0, frame[t].arg, ok))
         /\ owed' = IF ok THEN owed \cup {tk[t]} ELSE owed
         /\ unwaited' = IF ok /\ ~frame[t].wait
                           THEN unwaited \cup {tk[t]} ELSE unwaited
         /\ IF ok /\ frame[t].wait
              THEN /\ pc' = [pc EXCEPT ![t] = "sml_wait"]
                   /\ UNCHANGED <<frame, lockvars>>
              ELSE IF frame[t].api = "write"
                THEN IF ok
                  THEN /\ frame' = [frame EXCEPT ![t].err = 0,
                              ![t].count = TransferCount(frame[t].arg)]
                       /\ pc' = [pc EXCEPT ![t] = PayloadPath(max_packet)]
                       /\ UNCHANGED lockvars
                  ELSE /\ frame' = [frame EXCEPT ![t].err = QueueError]
                       /\ bcm2835_audio_unlock(t)
                       /\ pc' = [pc EXCEPT ![t] = "return"]
                ELSE /\ bcm2835_audio_unlock(t)
                     /\ AfterSendMsg(t, IF ok THEN 0 ELSE QueueError)
    /\ UNCHANGED <<video, chan, slot, timed_out, fifo, ncb, nops>>

\* wait_for_completion_timeout() returns non-zero: a complete() was seen.
SendWaitWake(t) ==
    /\ pc[t] = "sml_wait"
    /\ done > 0
    /\ done' = done - 1
    /\ pc' = [pc EXCEPT ![t] = "sml_result"]
    /\ UNCHANGED <<video, chan, lockvars, result, last_sig, frame, wire,
                   timed_out, peer, nops, nfail>>

\* a timeout that returns without unlocking
SendWaitTimeout_NoUnlock(t) ==
    /\ pc[t] = "sml_wait"
    /\ done = 0
    /\ timed_out' = timed_out \cup {tk[t]}
    /\ AfterSendMsg(t, TimeoutError)
    /\ UNCHANGED <<video, chan, lockvars, slot, wire, peer, nops, nfail>>

\* wait_for_completion_timeout() returns 0: 10 s passed without complete();
\* return -ETIMEDOUT, and send_msg unlocks.
SendWaitTimeout(t) ==
    /\ pc[t] = "sml_wait"
    /\ done = 0
    /\ timed_out' = timed_out \cup {tk[t]}
    /\ bcm2835_audio_unlock(t)
    /\ AfterSendMsg(t, TimeoutError)
    /\ UNCHANGED <<video, chan, slot, wire, peer, nops, nfail>>

\* The woken waiter reads instance->result; send_msg unlocks.
SendResult(t) ==
    /\ pc[t] = "sml_result"
    /\ bcm2835_audio_unlock(t)
    /\ AfterSendMsg(t, ResultError(result))
    /\ UNCHANGED <<video, chan, slot, wire, timed_out, peer, nops, nfail>>

\* The API function returns frame[t].err to its caller.
Return(t) ==
    /\ pc[t] = "return"
    /\ frame' = [frame EXCEPT ![t] = IdleFrame]
    /\ tk' = [tk EXCEPT ![t] = 0]
    /\ pc' = [pc EXCEPT ![t] = "idle"]
    /\ wire' = IF \A u \in Threads \ {t} : pc[u] = "idle" THEN <<>> ELSE wire
    /\ UNCHANGED <<video, chan, vchi_mutex, use_count, tickets, slot,
                   timed_out, peer, nops, nfail>>

(* ------------------------ bcm2835_audio_write -------------------------- *)
\* bcm2835_audio_lock(instance); the WRITE control message is then sent by
\* send_msg_locked(instance, &m, false): SendQueue.
WriteLock(t) ==
    /\ pc[t] = "wr_lock"
    /\ bcm2835_audio_lock(t)
    /\ Arm(t)
    /\ pc' = [pc EXCEPT ![t] = "sml_queue"]
    /\ UNCHANGED <<video, chan, frame, wire, timed_out, peer, nops, nfail>>

\* if (status) err = -EIO;  (err is 0 after the control send)
WriteError(status, err) == IF status # 0 THEN -EIO ELSE err

\* status = vchi_bulk_queue_transmit(handle, src, count, ...); the status
\* check; unlock; return err.
WriteBulk(t) ==
    /\ pc[t] = "wr_bulk"
    /\ \E ok \in TransportOutcomes :
         /\ CountFail(ok)
         /\ wire' = Append(wire,
                WireEntry(t, "bulk", "none", 0, frame[t].count, ok))
         /\ frame' = [frame EXCEPT
                ![t].status = TransportStatus(ok),
                ![t].err = WriteError(TransportStatus(ok), frame[t].err)]
    /\ bcm2835_audio_unlock(t)
    /\ pc' = [pc EXCEPT ![t] = "return"]
    /\ UNCHANGED <<video, chan, slot, timed_out, peer, nops>>

\* every chunk sent with the full packet size
ChunkBytes_Full(mp, count) == mp

\* int bytes = min(instance->max_packet, count);
ChunkBytes(mp, count) == Min(mp, count)

\* The status the loop leaves after a chunk: the status of that chunk.
ChunkStatus(old, new) == new

\* One iteration of  while (count > 0) { int bytes = min(max_packet, count);
\* status = vchi_queue_kernel_message(handle, src, bytes); src += bytes;
\* count -= bytes; }  and, when the loop ends, the status check, unlock and
\* return err.
WriteChunk(t) ==
    /\ pc[t] = "wr_chunk"
    /\ LET count == frame[t].count
           bytes == ChunkBytes(max_packet, count)
       IN /\ count > 0
          /\ \E ok \in TransportOutcomes :
               LET status == ChunkStatus(frame[t].status, TransportStatus(ok))
               IN /\ CountFail(ok)
                  /\ wire' = Append(wire,
                        WireEntry(t, "data", "none", frame[t].off, bytes, ok))
                  /\ IF count - bytes > 0
                       THEN /\ frame' = [frame EXCEPT
                                  ![t].status = status,
                                  ![t].off = frame[t].off + bytes,
                                  ![t].count = count - bytes]
                            /\ UNCHANGED <<pc, lockvars>>
                       ELSE /\ frame' = [frame EXCEPT
                                  ![t].status = status,
                                  ![t].off = frame[t].off + bytes,
                                  ![t].count = count - bytes,
                                  ![t].err = WriteError(status, frame[t].err)]
                            /\ bcm2835_audio_unlock(t)
                            /\ pc' = [pc EXCEPT ![t] = "return"]
    /\ UNCHANGED <<video, chan, slot, timed_out, peer, nops>>

(* ---------------------- the API entry points --------------------------- *)
\* The stream is open: bcm2835_audio_open has returned 0 and
\* bcm2835_audio_close has not been called.
Opened ==
    instance = "inst" /\ \A u \in Threads : frame[u].api \notin {"open", "close"}

\* Idle threads are interchangeable (no frame, no tk): the call is made by
\* the lowest-numbered idle thread.
LowestIdle(t) == pc[t] = "idle" /\ \A u \in Threads : u < t => pc[u] # "idle"

CanCall(t) == LowestIdle(t) /\ Opened /\ nops < MaxOps

StartCall(t, api, type, wait, arg, first) ==
    /\ CanCall(t)
    /\ nops' = nops + 1
    /\ frame' = [frame EXCEPT ![t] =
          [IdleFrame EXCEPT !.api = api, !.type = type, !.wait = wait,
                            !.arg = arg,
                            !.stage = IF api = "set_params" THEN 1 ELSE 0]]
    /\ pc' = [pc EXCEPT ![t] = first]
    /\ UNCHANGED <<video, chan, lockvars, slot, wire, timed_out, peer,
                   nfail>>

\* bcm2835_audio_set_ctls: send_msg(CONTROL, wait = true)
bcm2835_audio_set_ctls(t) ==
    StartCall(t, "set_ctls", "CONTROL", TRUE, 0, "sm_lock")

\* bcm2835_audio_set_params: set_ctls, then send_msg(CONFIG, wait = true)
bcm2835_audio_set_params(t) ==
    StartCall(t, "set_params", "CONTROL", TRUE, 0, "sm_lock")

\* bcm2835_audio_start: send_simple(START, wait = false)
bcm2835_audio_start(t) ==
    StartCall(t, "start", "START", FALSE, 0, "sm_lock")

\* bcm2835_audio_stop: send_simple(STOP, wait = false)
bcm2835_audio_stop(t) ==
    StartCall(t, "stop", "STOP", FALSE, 0, "sm_lock")

\* a drain that waits for the RESULT of its STOP
bcm2835_audio_drain_Waits(t) ==
    StartCall(t, "drain", "STOP", TRUE, 1, "sm_lock")

\* bcm2835_audio_drain: send_msg(STOP with draining = 1, wait = false)
bcm2835_audio_drain(t) ==
    StartCall(t, "drain", "STOP", FALSE, 1, "sm_lock")

\* bcm2835_audio_write(size): if (!size) return 0; else take the lock
bcm2835_audio_write(t) ==
    \E size \in WriteSizes :
        StartCall(t, "write", "WRITE", FALSE, size,
                  IF size = 0 THEN "return" ELSE "wr_lock")

(* ------------------------ bcm2835_audio_open --------------------------- *)
\* instance = kzalloc(); if (!instance) return -ENOMEM; mutex_init();
\* instance->alsa_stream = alsa_stream; alsa_stream->instance = instance;
bcm2835_audio_open(t) ==
    /\ instance = "NULL"
    /\ \A u \in Threads : pc[u] = "idle"
    /\ LowestIdle(t)
    /\ nopen < MaxOpens
    /\ nopen' = nopen + 1
    /\ \E ok \in TransportOutcomes :
         /\ CountFail(ok)
         /\ IF ok
              THEN /\ instance' = "inst"
                   /\ vchi_mutex' = {}
                   /\ result' = 0
                   /\ done' = 0
                   /\ max_packet' = 0
                   /\ peer_version' = 0
                   /\ kfree_count' = 0
                   /\ frame' = [frame EXCEPT ![t] =
                                  [IdleFrame EXCEPT !.api = "open"]]
                   /\ pc' = [pc EXCEPT ![t] = "open_init"]
              ELSE /\ frame' = [frame EXCEPT ![t] =
                                  [IdleFrame EXCEPT !.api = "open",
                                                    !.err = -ENOMEM]]
                   /\ pc' = [pc EXCEPT ![t] = "return"]
                   /\ UNCHANGED <<instance, vchi_mutex, result, done,
                                  max_packet, peer_version, kfree_count>>
    /\ UNCHANGED <<video, force_bulk, service, use_count, tickets, tk, last_sig,
                   wire, timed_out, peer, nops>>

\* vc_vchi_audio_init: vchi_service_open(); on failure kfree(instance) and
\* return -EPERM, and open's free_instance path clears alsa_stream->instance
\* and calls kfree(instance) again; on success vchi_service_release() and
\* open goes on to send_simple(OPEN, wait = false).
vc_vchi_audio_init(t) ==
    /\ pc[t] = "open_init"
    /\ \E ok \in TransportOutcomes :
         /\ CountFail(ok)
         /\ IF ok
              THEN /\ service' = "open"
                   /\ use_count' = 0
                   /\ frame' = [frame EXCEPT ![t].type = "OPEN",
                                             ![t].wait = FALSE]
                   /\ pc' = [pc EXCEPT ![t] = "sm_lock"]
                   /\ UNCHANGED <<instance, kfree_count>>
              ELSE /\ kfree_count' = kfree_count + 2
                   /\ instance' = "NULL"
                   /\ frame' = [frame EXCEPT ![t].err = -EPERM]
                   /\ pc' = [pc EXCEPT ![t] = "return"]
                   /\ UNCHANGED <<service, use_count>>
    /\ UNCHANGED <<video, nopen, force_bulk, max_packet, peer_version, vchi_mutex, tickets,
                   tk, slot, wire, timed_out, peer, nops>>

\* vc_vchi_audio_deinit: mutex_lock(); vchi_service_use();
\* status = vchi_service_close(); a non-zero status is only logged;
\* mutex_unlock().  There is no vchi_service_release().  After a close that
\* failed the service may still be open.
vc_vchi_audio_deinit ==
    /\ MutexFree
    /\ use_count' = use_count + 1
    /\ \E ok \in TransportOutcomes :
         /\ CountFail(ok)
         /\ service' \in (IF ok THEN {"closed"} ELSE {service, "closed"})
    /\ UNCHANGED <<video, vchi_mutex, tickets, tk>>

\* a deinit path that frees the instance and leaves alsa_stream->instance set
OpenDeinit_KeepsInstance(t) ==
    /\ pc[t] = "open_deinit"
    /\ vc_vchi_audio_deinit
    /\ instance' = instance
    /\ kfree_count' = kfree_count + 1
    /\ pc' = [pc EXCEPT ![t] = "return"]
    /\ UNCHANGED <<video, nopen, force_bulk, max_packet, peer_version,
                   slot, frame, wire, timed_out, peer, nops>>

\* deinit: vc_vchi_audio_deinit(instance); free_instance:
\* alsa_stream->instance = NULL; kfree(instance); return err;
OpenDeinit(t) ==
    /\ pc[t] = "open_deinit"
    /\ vc_vchi_audio_deinit
    /\ instance' = "NULL"
    /\ kfree_count' = kfree_count + 1
    /\ pc' = [pc EXCEPT ![t] = "return"]
    /\ UNCHANGED <<video, nopen, force_bulk, max_packet, peer_version,
                   slot, frame, wire, timed_out, peer, nops>>

\* bcm2835_audio_lock(instance) before vchi_get_peer_version()
OpenVersionLock(t) ==
    /\ pc[t] = "open_ver_lock"
    /\ bcm2835_audio_lock(t)
    /\ pc' = [pc EXCEPT ![t] = "open_ver"]
    /\ UNCHANGED <<video, chan, slot, frame, wire, timed_out, peer,
                   nops, nfail>>

\* the two transfer modes exchanged
MaxPacketFor_Swapped(version, force) ==
    IF version < MIN_PEER_VERSION \/ force THEN INLINE_MAX_PACKET ELSE 0

\* if (peer_version < 2 || force_bulk) max_packet = 0; else max_packet = 4000;
MaxPacketFor(version, force) ==
    IF version < MIN_PEER_VERSION \/ force THEN 0 ELSE INLINE_MAX_PACKET

\* vchi_get_peer_version(); bcm2835_audio_unlock(); set max_packet; return 0
OpenVersion(t) ==
    /\ pc[t] = "open_ver"
    /\ \E v \in PeerVersions :
         /\ peer_version' = v
         /\ max_packet' = MaxPacketFor(v, force_bulk)
    /\ bcm2835_audio_unlock(t)
    /\ frame' = [frame EXCEPT ![t].err = 0]
    /\ pc' = [pc EXCEPT ![t] = "return"]
    /\ UNCHANGED <<video, nopen, force_bulk, instance, service, kfree_count, slot, wire,
                   timed_out, peer, nops, nfail>>

(* ------------------------ bcm2835_audio_close ------------------------- *)
\* bcm2835_audio_close: send_simple(CLOSE, wait = true).  The caller has
\* quiesced the stream: no other call is outstanding.
bcm2835_audio_close(t) ==
    /\ \A u \in Threads : pc[u] = "idle"
    /\ StartCall(t, "close", "CLOSE", TRUE, 0, "sm_lock")

\* vc_vchi_audio_deinit(instance); alsa_stream->instance = NULL;
\* kfree(instance); return err;  (err is what the CLOSE call returned)
CloseDeinit(t) ==
    /\ pc[t] = "close_deinit"
    /\ vc_vchi_audio_deinit
    /\ instance' = "NULL"
    /\ kfree_count' = kfree_count + 1
    /\ pc' = [pc EXCEPT ![t] = "return"]
    /\ UNCHANGED <<video, nopen, force_bulk, max_packet, peer_version,
                   slot, frame, wire, timed_out, peer, nops>>

(* ------------------------ audio_vchi_callback -------------------------- *)
PeerMsg(type, success, cookie1, cookie2, count) ==
    [type |-> type, success |-> success, cookie1 |-> cookie1,
     cookie2 |-> cookie2, count |-> count]

\* only the first cookie compared
CookiesValid_First(m) == ~(m.cookie1 # BCM2835_AUDIO_WRITE_COOKIE1)

\* The COMPLETE branch takes the message when neither cookie differs.
CookiesValid(m) ==
    ~(m.cookie1 # BCM2835_AUDIO_WRITE_COOKIE1 \/
      m.cookie2 # BCM2835_AUDIO_WRITE_COOKIE2)

\* a callback that takes the channel mutex before it touches the instance
audio_vchi_callback_Locked(reason, m) ==
    /\ service = "open"
    /\ ncb < MaxCb
    /\ MutexFree
    /\ IF reason # "MSG_AVAILABLE"
         THEN UNCHANGED <<result, done, fifo, ncb>>
         ELSE IF m.type = "RESULT"
           THEN /\ result' = m.success
                /\ done' = done + 1
                /\ ncb' = ncb + 1
                /\ UNCHANGED fifo
           ELSE IF m.type = "COMPLETE" /\ CookiesValid(m)
             THEN /\ fifo' = Append(fifo, m.count)
                  /\ ncb' = ncb + 1
                  /\ UNCHANGED <<result, done>>
             ELSE UNCHANGED <<result, done, fifo, ncb>>
    /\ UNCHANGED <<video, chan, lockvars, pc, frame, wire, timed_out, nops, nfail>>

\* a callback that takes every message but COMPLETE for a RESULT
audio_vchi_callback_ElseResult(reason, m) ==
    /\ service = "open"
    /\ ncb < MaxCb
    /\ IF reason # "MSG_AVAILABLE"
         THEN UNCHANGED <<result, done, fifo, ncb>>
         ELSE IF m.type = "COMPLETE"
           THEN IF CookiesValid(m)
                  THEN /\ fifo' = Append(fifo, m.count)
                       /\ ncb' = ncb + 1
                       /\ UNCHANGED <<result, done>>
                  ELSE UNCHANGED <<result, done, fifo, ncb>>
           ELSE /\ result' = m.success
                /\ done' = done + 1
                /\ ncb' = ncb + 1
                /\ UNCHANGED fifo
    /\ UNCHANGED <<video, chan, lockvars, pc, frame, wire, timed_out, nops, nfail>>

\* audio_vchi_callback(param, reason, msg_handle): m is what
\* vchi_msg_dequeue left in the local message.
audio_vchi_callback(reason, m) ==
    /\ service = "open"
    /\ ncb < MaxCb
    /\ IF reason # "MSG_AVAILABLE"
         THEN UNCHANGED <<result, done, fifo, ncb>>
         ELSE IF m.type = "RESULT"
           THEN /\ result' = m.success
                /\ done' = done + 1
                /\ ncb' = ncb + 1
                /\ UNCHANGED fifo
           ELSE IF m.type = "COMPLETE" /\ CookiesValid(m)
             THEN /\ fifo' = Append(fifo, m.count)
                  /\ ncb' = ncb + 1
                  /\ UNCHANGED <<result, done>>
             ELSE UNCHANGED <<result, done, fifo, ncb>>
    /\ UNCHANGED <<video, chan, lockvars, pc, frame, wire, timed_out, nops, nfail>>

\* The transport hands the callback the message m, which answers the
\* message re of this side (0: none).
Deliver(m, re) ==
    /\ audio_vchi_callback("MSG_AVAILABLE", m)
    /\ last_sig' = IF m.type = "RESULT"
                     THEN [re |-> re, code |-> m.success] ELSE last_sig

\* The peer handles the messages in the order they were sent (the transport
\* is a FIFO): it answers the message i with a RESULT, having answered or
\* passed over every message sent before it.
DeliverResult(i, code) ==
    /\ i \in owed
    /\ Deliver(PeerMsg("RESULT", code, 0, 0, 0), i)
    /\ owed' = {j \in owed : j > i}
    /\ unwaited' = {j \in unwaited : j > i}

DispatchResult == \E i \in owed, code \in ResultCodes : DeliverResult(i, code)

\* The peer sends a COMPLETE, with any cookies and count.
DeliverComplete(c1, c2, n) ==
    /\ Deliver(PeerMsg("COMPLETE", 0, c1, c2, n), 0)
    /\ UNCHANGED <<owed, unwaited>>

DispatchComplete ==
    \E c1 \in Cookies1, c2 \in Cookies2, n \in CompleteCounts :
        DeliverComplete(c1, c2, n)

\* The peer sends a message of any other type.
DispatchOther ==
    \E type \in {"OPEN", "WRITE"} :
        /\ Deliver(PeerMsg(type, 0, 0, 0, 0), 0)
        /\ UNCHANGED <<owed, unwaited>>

\* The transport calls back for another reason than MSG_AVAILABLE.
DispatchReason ==
    \E reason \in {"BULK_SENT", "SERVICE_CLOSED"} :
        /\ audio_vchi_callback(reason, PeerMsg("none", 0, 0, 0, 0))
        /\ UNCHANGED <<owed, unwaited, last_sig>>

\* What the local message may hold when vchi_msg_dequeue fails: it is not
\* initialised and the status is not looked at.
Uninitialised ==
    {PeerMsg("RESULT", code, 0, 0, 0) : code \in ResultCodes}
      \cup {PeerMsg("COMPLETE", 0, c1, BCM2835_AUDIO_WRITE_COOKIE2, n) :
              c1 \in Cookies1, n \in CompleteCounts}
      \cup {PeerMsg("none", 0, 0, 0, 0)}

DispatchDequeueFail ==
    \E m \in Uninitialised :
        /\ Deliver(m, 0)
        /\ UNCHANGED <<owed, unwaited>>

(* --------------------------- specification ----------------------------- *)
Next ==
    \/ \E t \in Threads : bcm2835_audio_open(t)
    \/ \E t \in Threads : vc_vchi_audio_init(t)
    \/ \E t \in Threads : OpenDeinit(t)
    \/ \E t \in Threads : OpenVersionLock(t)
    \/ \E t \in Threads : OpenVersion(t)
    \/ \E t \in Threads : bcm2835_audio_set_ctls(t)
    \/ \E t \in Threads : bcm2835_audio_set_params(t)
    \/ \E t \in Threads : bcm2835_audio_start(t)
    \/ \E t \in Threads : bcm2835_audio_stop(t)
    \/ \E t \in Threads : bcm2835_audio_drain(t)
    \/ \E t \in Threads : bcm2835_audio_write(t)
    \/ \E t \in Threads : SendMsgLock(t)
    \/ \E t \in Threads : SendQueue(t)
    \/ \E t \in Threads : SendWaitWake(t)
    \/ \E t \in Threads : SendWaitTimeout(t)
    \/ \E t \in Threads : SendResult(t)
    \/ \E t \in Threads : WriteLock(t)
    \/ \E t \in Threads : WriteBulk(t)
    \/ \E t \in Threads : WriteChunk(t)
    \/ \E t \in Threads : bcm2835_audio_close(t)
    \/ \E t \in Threads : CloseDeinit(t)
    \/ \E t \in Threads : Return(t)
    \/ DispatchResult
    \/ DispatchComplete
    \/ DispatchOther
    \/ DispatchReason
    \/ DispatchDequeueFail

Spec == Init /\ [][Next]_vars

\* The waits end: a timer expires after 10 s, a woken waiter is scheduled.
FairSpec ==
    Spec /\ \A t \in Threads : WF_vars(SendWaitTimeout(t) \/ SendWaitWake(t))

(* ---------------------- the video buffer ports ------------------------- *)

CodecPorts == {"ip", "op"}
IspPorts == {"isp0", "isp1"}

\* The codec context drives its input and output port; the ISP device
\* drives its nodes.
PortSets == {CodecPorts, IspPorts}

\* The completion a port's callback signals and its stop_streaming waits
\* on: ctx->frame_cmplt (codec), dev->frame_cmplt (ISP).
Owner(p) == IF p \in CodecPorts THEN "ctx" ELSE "dev"

StopSteps == {"disable", "drain", "wait", "cleanup", "check", "wait_all"}

\* Both codec queues take dev->dev_mutex: no ioctl on one of them runs
\* while stop_streaming of the other has not returned.
CodecMutexFree == \A q \in CodecPorts : spc[q] \notin StopSteps

QueueLockFree(p) ==
    IF p \in CodecPorts THEN CodecMutexFree ELSE spc[p] \notin StopSteps

Range(f) == {f[i] : i \in DOMAIN f}

B2N(b) == IF b THEN 1 ELSE 0

RECURSIVE BitAnd(_, _)
BitAnd(a, b) ==
    IF a = 0 \/ b = 0 THEN 0
    ELSE (a % 2) * (b % 2) + 2 * BitAnd(a \div 2, b \div 2)

\* The C operator !x on an integer.
LogicalNot(x) == IF x = 0 THEN 1 ELSE 0

\* What the remote side reports with a returned buffer.
Statuses == {0, 0 - EIO}

MmalBufs ==
    [length : {0, 1},
     mmal_flags : {0, MMAL_BUFFER_HEADER_FLAG_EOS,
                   MMAL_BUFFER_HEADER_FLAG_KEYFRAME,
                   MMAL_BUFFER_HEADER_FLAG_EOS
                     + MMAL_BUFFER_HEADER_FLAG_KEYFRAME}]

\* vchiq_mmal_submit_buffer: a buffer handed to the remote side is counted
\* in port->buffers_with_vpu; a failed submission hands over nothing.
vchiq_mmal_submit_buffer(p, b, ok) ==
    /\ inflight' = [inflight EXCEPT ![p] = IF ok THEN @ \cup {b} ELSE @]
    /\ buffers_with_vpu' =
         [buffers_with_vpu EXCEPT ![p] = IF ok THEN @ + 1 ELSE @]

\* vchiq_mmal_port_disable clears port->enabled before it asks the remote
\* side to flush the buffers back.
vchiq_mmal_port_disable(p) == enabled' = [enabled EXCEPT ![p] = FALSE]

vb2_buffer_done(p, b, st) == vb2state' = [vb2state EXCEPT ![p][b] = st]

\* if (!port->enabled) complete(&frame_cmplt)
CompleteIfDisabled(p) ==
    frame_cmplt' = IF ~enabled[p]
                   THEN [frame_cmplt EXCEPT ![Owner(p)] = @ + 1]
                   ELSE frame_cmplt

\* The test  !mmal_buf->mmal_flags & MMAL_BUFFER_HEADER_FLAG_EOS  as C
\* parses it: (!flags) & EOS.
NotEosTest(flags) ==
    BitAnd(LogicalNot(flags), MMAL_BUFFER_HEADER_FLAG_EOS) # 0

HasFlag(flags, f) == BitAnd(flags, f) # 0

ip_buffer_cb_NoDoneOnError(b, status, m) ==
    IF status # 0
    THEN UNCHANGED <<vb2state, vb2flags, num_buffers, eos_events,
                     frame_cmplt>>
    ELSE /\ vb2_buffer_done("ip", b, "DONE")
         /\ num_buffers' = [num_buffers EXCEPT !["ip"] = @ + 1]
         /\ CompleteIfDisabled("ip")
         /\ UNCHANGED <<vb2flags, eos_events>>

\* ip_buffer_cb for a returned input buffer (mmal_buf->cmd = 0).
ip_buffer_cb(b, status, m) ==
    IF status # 0
    THEN /\ vb2_buffer_done("ip", b, "ERROR")
         /\ UNCHANGED <<vb2flags, num_buffers, eos_events, frame_cmplt>>
    ELSE /\ vb2_buffer_done("ip", b, "DONE")
         /\ num_buffers' = [num_buffers EXCEPT !["ip"] = @ + 1]
         /\ CompleteIfDisabled("ip")
         /\ UNCHANGED <<vb2flags, eos_events>>

op_buffer_cb_NoEosEvent(b, status, m) ==
    IF status # 0
    THEN /\ vb2_buffer_done("op", b, "ERROR")
         /\ UNCHANGED <<vb2flags, num_buffers, eos_events, frame_cmplt>>
    ELSE IF m.length = 0 /\ NotEosTest(m.mmal_flags)
    THEN /\ vb2_buffer_done("op", b, "ERROR")
         /\ CompleteIfDisabled("op")
         /\ UNCHANGED <<vb2flags, num_buffers, eos_events>>
    ELSE /\ vb2flags' =
              [vb2flags EXCEPT !["op"][b] =
                 (IF HasFlag(m.mmal_flags, MMAL_BUFFER_HEADER_FLAG_EOS)
                  THEN {"LAST"} ELSE {})
                 \cup
                 (IF HasFlag(m.mmal_flags,
                             MMAL_BUFFER_HEADER_FLAG_KEYFRAME)
                  THEN {"KEYFRAME"} ELSE {})]
         /\ vb2_buffer_done("op", b, "DONE")
         /\ num_buffers' = [num_buffers EXCEPT !["op"] = @ + 1]
         /\ CompleteIfDisabled("op")
         /\ UNCHANGED eos_events

\* op_buffer_cb for a returned output buffer (mmal_buf->cmd = 0).
op_buffer_cb(b, status, m) ==
    IF status # 0
    THEN /\ vb2_buffer_done("op", b, "ERROR")
         /\ UNCHANGED <<vb2flags, num_buffers, eos_events, frame_cmplt>>
    ELSE IF m.length = 0 /\ NotEosTest(m.mmal_flags)
    THEN /\ vb2_buffer_done("op", b, "ERROR")
         /\ CompleteIfDisabled("op")
         /\ UNCHANGED <<vb2flags, num_buffers, eos_events>>
    ELSE /\ eos_events' =
              eos_events
                + B2N(HasFlag(m.mmal_flags, MMAL_BUFFER_HEADER_FLAG_EOS))
         /\ vb2flags' =
              [vb2flags EXCEPT !["op"][b] =
                 (IF HasFlag(m.mmal_flags, MMAL_BUFFER_HEADER_FLAG_EOS)
                  THEN {"LAST"} ELSE {})
                 \cup
                 (IF HasFlag(m.mmal_flags,
                             MMAL_BUFFER_HEADER_FLAG_KEYFRAME)
                  THEN {"KEYFRAME"} ELSE {})]
         /\ vb2_buffer_done("op", b, "DONE")
         /\ num_buffers' = [num_buffers EXCEPT !["op"] = @ + 1]
         /\ CompleteIfDisabled("op")

\* mmal_buffer_cb of an ISP node for a returned buffer.
mmal_buffer_cb(p, b, status, m) ==
    IF status # 0
    THEN /\ vb2_buffer_done(p, b, "ERROR")
         /\ UNCHANGED <<vb2flags, num_buffers, eos_events, frame_cmplt>>
    ELSE /\ num_buffers' = [num_buffers EXCEPT ![p] = @ + 1]
         /\ vb2_buffer_done(p, b, "DONE")
         /\ CompleteIfDisabled(p)
         /\ UNCHANGED <<vb2flags, eos_events>>

\* The callback registered with vchiq_mmal_port_enable for the port.
buffer_cb(p, b, status, m) ==
    IF p = "ip" THEN ip_buffer_cb(b, status, m)
    ELSE IF p = "op" THEN op_buffer_cb(b, status, m)
    ELSE mmal_buffer_cb(p, b, status, m)

\* The remote side returns a buffer: the transport takes it out of the
\* in-flight count and runs the port's callback.
BufferReturn(p) ==
    /\ p \in streams
    /\ \E b \in inflight[p], status \in Statuses, m \in MmalBufs :
         /\ inflight' = [inflight EXCEPT ![p] = @ \ {b}]
         /\ buffers_with_vpu' = [buffers_with_vpu EXCEPT ![p] = @ - 1]
         /\ buffer_cb(p, b, status, m)
    /\ UNCHANGED <<audio, evt, eosb, nfail, streams, enabled, ready, spc,
                   drain_timed_out, component_enabled, component,
                   num_streaming, nqueued>>

(* ------------------------ events on the ports -------------------------- *)

\* The payloads of a format-changed event.
FormatEvents ==
    [type : {"VIDEO", "AUDIO"},
     width : {48}, height : {32},
     crop_width : {40}, crop_height : {30},
     buffer_size_min : {4608},
     color_space : {"0", "ITUR_BT709"}]

EventCmds == {"FORMAT_CHANGED", "ERROR"}

NoFormat == CHOOSE f \in FormatEvents : f.type = "AUDIO"

\* What an event carries, and whether a stray vb2_buffer_done in its
\* callback faults: a payload is read only from a format-changed event
\* with status 0, and only a call that reaches the stray vb2_buffer_done
\* can fault.
PortEvents ==
    {[status |-> 0, cmd |-> "FORMAT_CHANGED", format |-> f, fault |-> b] :
         f \in FormatEvents, b \in BOOLEAN}
      \cup {[status |-> st, cmd |-> "ERROR", format |-> NoFormat,
              fault |-> b] : st \in Statuses, b \in BOOLEAN}
      \cup {[status |-> 0 - EIO, cmd |-> "FORMAT_CHANGED",
              format |-> NoFormat, fault |-> b] : b \in BOOLEAN}

\* depth and bytesperline_align of the capture format (YUV420).
CaptureDepth == 8
CaptureAlign == 32

ALIGN(x, a) == ((x + a - 1) \div a) * a

\* ALIGN((width * fmt->depth) >> 3, fmt->bytesperline_align)
get_bytesperline(width) == ALIGN((width * CaptureDepth) \div 8, CaptureAlign)

\* ctx->ycbcr_enc after color_mmal2v4l.
color_mmal2v4l(enc, color_space) ==
    IF color_space = "ITUR_BT601" THEN "601"
    ELSE IF color_space = "ITUR_BT709" THEN "709"
    ELSE enc

\* a handler that also takes the crop size for the height
handle_fmt_changed_CropHeight(format) ==
    IF format.type # "VIDEO"
    THEN UNCHANGED <<capture_fmt, src_chg_events>>
    ELSE /\ capture_fmt' =
              [crop_width |-> format.crop_width,
               crop_height |-> format.crop_height,
               bytesperline |-> get_bytesperline(format.width),
               height |-> format.crop_height,
               sizeimage |-> format.buffer_size_min,
               ycbcr_enc |-> capture_fmt.ycbcr_enc]
         /\ src_chg_events' = src_chg_events + 1

\* handle_fmt_changed: a format that is not video is ignored; otherwise the
\* capture queue takes the event's geometry and a source-change event is
\* queued.
handle_fmt_changed(format) ==
    IF format.type # "VIDEO"
    THEN UNCHANGED <<capture_fmt, src_chg_events>>
    ELSE /\ capture_fmt' =
              [crop_width |-> format.crop_width,
               crop_height |-> format.crop_height,
               bytesperline |-> get_bytesperline(format.width),
               height |-> format.height,
               sizeimage |-> format.buffer_size_min,
               ycbcr_enc |->
                   IF format.color_space # "0"
                   THEN color_mmal2v4l(capture_fmt.ycbcr_enc,
                                       format.color_space)
                   ELSE capture_fmt.ycbcr_enc]
         /\ src_chg_events' = src_chg_events + 1

\* vb2_buffer_done on the address container_of() computes from an event's
\* buffer, which is part of no queue buffer: the call reads memory next to
\* the event buffer and either finds no ACTIVE buffer there and returns,
\* or faults.  fault says which.
StrayBufferDone(fault) == oops' = (oops \/ fault)

\* op_buffer_cb called with an event (mmal_buf->cmd != 0).
op_buffer_cb_cmd(status, cmd, format, fault) ==
    IF status # 0
    THEN /\ StrayBufferDone(fault)
         /\ UNCHANGED <<capture_fmt, src_chg_events, num_buffers,
                        frame_cmplt>>
    ELSE /\ IF cmd = "FORMAT_CHANGED"
            THEN handle_fmt_changed(format)
            ELSE UNCHANGED <<capture_fmt, src_chg_events>>
         /\ UNCHANGED <<oops, num_buffers, frame_cmplt>>

\* ip_buffer_cb called with an event: the event is logged and the function
\* goes on as for a returned buffer.
ip_buffer_cb_cmd(status, cmd, format, fault) ==
    /\ StrayBufferDone(fault)
    /\ IF status # 0 \/ fault
       THEN UNCHANGED <<num_buffers, frame_cmplt>>
       ELSE /\ num_buffers' = [num_buffers EXCEPT !["ip"] = @ + 1]
            /\ CompleteIfDisabled("ip")
    /\ UNCHANGED <<capture_fmt, src_chg_events>>

\* mmal_buffer_cb of an ISP node called with an event: the event is logged
\* and the function goes on as for a returned buffer.
mmal_buffer_cb_cmd(p, status, cmd, format, fault) ==
    /\ StrayBufferDone(fault)
    /\ IF status # 0 \/ fault
       THEN UNCHANGED <<num_buffers, frame_cmplt>>
       ELSE /\ num_buffers' = [num_buffers EXCEPT ![p] = @ + 1]
            /\ CompleteIfDisabled(p)
    /\ UNCHANGED <<capture_fmt, src_chg_events>>

\* The remote side sends an event on a port whose callback is registered:
\* the transport runs the port's callback with a buffer of its own that
\* carries the event; no buffer in flight is involved.
PortEvent(p) ==
    /\ p \in streams
    /\ spc[p] # "off"
    /\ nevents["ip"] + nevents["op"] + nevents["isp0"] + nevents["isp1"]
         < MaxEvents
    /\ nevents' = [nevents EXCEPT ![p] = @ + 1]
    /\ \E ev \in PortEvents :
         IF p = "ip"
         THEN ip_buffer_cb_cmd(ev.status, ev.cmd, ev.format, ev.fault)
         ELSE IF p = "op"
         THEN op_buffer_cb_cmd(ev.status, ev.cmd, ev.format, ev.fault)
         ELSE mmal_buffer_cb_cmd(p, ev.status, ev.cmd, ev.format, ev.fault)
    /\ UNCHANGED <<audio, eosb, nfail, streams, enabled, buffers_with_vpu,
                   inflight, ready, vb2state, vb2flags, spc,
                   drain_timed_out, component_enabled, component,
                   num_streaming, eos_events, nqueued>>

\* VIDIOC_QBUF on a codec queue: bcm2835_codec_buf_queue hands the buffer
\* to the mem2mem ready list.
bcm2835_codec_buf_queue(p) ==
    /\ p \in streams /\ p \in CodecPorts
    /\ CodecMutexFree
    /\ nqueued < MaxQueued
    /\ \E b \in Bufs :
         /\ vb2state[p][b] = "DEQUEUED"
         /\ vb2state' = [vb2state EXCEPT ![p][b] = "ACTIVE"]
         /\ vb2flags' = [vb2flags EXCEPT ![p][b] = {}]
         /\ ready' = [ready EXCEPT ![p] = Append(@, b)]
    /\ nqueued' = nqueued + 1
    /\ UNCHANGED <<audio, evt, eosb, nfail, streams, enabled, buffers_with_vpu,
                   inflight, frame_cmplt, spc, drain_timed_out,
                   component_enabled, component, num_streaming,
                   num_buffers, eos_events>>

\* VIDIOC_QBUF on a streaming ISP node: the buffer is submitted at once
\* and the result of the submission is not looked at.
bcm2835_isp_node_buffer_queue(p) ==
    /\ p \in streams /\ p \in IspPorts
    /\ spc[p] = "on"
    /\ nqueued < MaxQueued
    /\ \E b \in Bufs, ok \in TransportOutcomes :
         /\ vb2state[p][b] = "DEQUEUED"
         /\ vb2state' = [vb2state EXCEPT ![p][b] = "ACTIVE"]
         /\ vb2flags' = [vb2flags EXCEPT ![p][b] = {}]
         /\ vchiq_mmal_submit_buffer(p, b, ok)
         /\ CountFail(ok)
    /\ nqueued' = nqueued + 1
    /\ UNCHANGED <<audio, evt, eosb, streams, enabled, ready, frame_cmplt, spc,
                   drain_timed_out, component_enabled, component,
                   num_streaming, num_buffers, eos_events>>

\* VIDIOC_DQBUF: the application takes a completed buffer back.
DQBuf(p) ==
    /\ p \in streams
    /\ \E b \in Bufs :
         /\ vb2state[p][b] \in {"DONE", "ERROR"}
         /\ vb2state' = [vb2state EXCEPT ![p][b] = "DEQUEUED"]
    /\ UNCHANGED <<audio, evt, eosb, nfail, streams, enabled, buffers_with_vpu,
                   inflight, ready, vb2flags, frame_cmplt, spc,
                   drain_timed_out, component_enabled, component,
                   num_streaming, num_buffers, eos_events, nqueued>>

\* job_ready: a job runs when a source or a destination buffer is ready.
job_ready == ready["ip"] # <<>> \/ ready["op"] # <<>>

\* device_run: the head of each ready list is removed and submitted; a
\* failed submission is logged.
device_run ==
    /\ streams = CodecPorts
    /\ \A q \in CodecPorts : spc[q] = "on"
    /\ job_ready
    /\ \E ok_src, ok_dst \in BOOLEAN :
         LET src == ready["ip"] # <<>>
             dst == ready["op"] # <<>>
             fails == B2N(src /\ ~ok_src) + B2N(dst /\ ~ok_dst)
             Sub(q, has, ok) ==
                 IF has /\ ok THEN {Head(ready[q])} ELSE {}
         IN  /\ nfail + fails <= MaxFails
             /\ (~src => ok_src) /\ (~dst => ok_dst)
             /\ nfail' = nfail + fails
             /\ ready' = [q \in Ports |->
                            IF q \in CodecPorts /\ ready[q] # <<>>
                            THEN Tail(ready[q]) ELSE ready[q]]
             /\ inflight' =
                  [q \in Ports |->
                     IF q = "ip" THEN inflight[q] \cup Sub(q, src, ok_src)
                     ELSE IF q = "op"
                     THEN inflight[q] \cup Sub(q, dst, ok_dst)
                     ELSE inflight[q]]
             /\ buffers_with_vpu' =
                  [q \in Ports |->
                     IF q = "ip"
                     THEN buffers_with_vpu[q] + B2N(src /\ ok_src)
                     ELSE IF q = "op"
                     THEN buffers_with_vpu[q] + B2N(dst /\ ok_dst)
                     ELSE buffers_with_vpu[q]]
    /\ UNCHANGED <<audio, evt, eosb, streams, enabled, vb2state, vb2flags, frame_cmplt,
                   spc, drain_timed_out, component_enabled, component,
                   num_streaming, num_buffers, eos_events, nqueued>>

\* bcm2835_codec_start_streaming: a failure to enable the component is
\* logged and ctx->component_enabled is set all the same; on the input
\* queue the EOS buffer is re-created and marked unused; the result of
\* enabling the port is the result of the call.
bcm2835_codec_start_streaming(p) ==
    /\ p \in streams /\ p \in CodecPorts
    /\ spc[p] = "off"
    /\ CodecMutexFree
    /\ \E ok_comp, ok_port \in BOOLEAN :
         LET fails == B2N(~ok_comp) + B2N(~ok_port)
         IN  /\ nfail + fails <= MaxFails
             /\ (component_enabled => ok_comp)
             /\ nfail' = nfail + fails
             /\ component' =
                  IF component_enabled THEN component
                  ELSE [component EXCEPT !["codec"] = @ \/ ok_comp]
             /\ component_enabled' = TRUE
             /\ enabled' = [enabled EXCEPT ![p] = ok_port]
             /\ spc' = [spc EXCEPT ![p] = IF ok_port THEN "on" ELSE "off"]
    /\ eos_buffer_in_use' = IF p = "ip" THEN FALSE ELSE eos_buffer_in_use
    /\ UNCHANGED <<audio, evt, eos_with_vpu, ncmds, streams,
                   buffers_with_vpu, inflight, ready, vb2state, vb2flags,
                   frame_cmplt, drain_timed_out, num_streaming,
                   num_buffers, eos_events, nqueued>>

\* vidioc_decoder_cmd / vidioc_encoder_cmd with the STOP command while the
\* input queue streams: eos_buffer_in_use is tested only to log an error,
\* then set, and the EOS buffer is submitted on the input port; a failed
\* submission is logged.
vidioc_decoder_cmd ==
    /\ streams = CodecPorts
    /\ spc["ip"] = "on"
    /\ CodecMutexFree
    /\ ncmds < MaxCmds
    /\ ncmds' = ncmds + 1
    /\ eos_buffer_in_use' = TRUE
    /\ \E ok \in TransportOutcomes :
         /\ CountFail(ok)
         /\ eos_with_vpu' = eos_with_vpu + B2N(ok)
         /\ buffers_with_vpu' =
              [buffers_with_vpu EXCEPT !["ip"] = @ + B2N(ok)]
    /\ UNCHANGED <<audio, evt, streams, enabled, inflight, ready, vb2state,
                   vb2flags, frame_cmplt, spc, drain_timed_out,
                   component_enabled, component, num_streaming,
                   num_buffers, eos_events, nqueued>>

\* ip_buffer_cb for the EOS buffer: eos_buffer_in_use is cleared and the
\* callback returns, before it looks at the status or at port->enabled.
ip_buffer_cb_eos == eos_buffer_in_use' = FALSE

\* The remote side returns the EOS buffer on the input port.
EosBufferReturn ==
    /\ eos_with_vpu > 0
    /\ eos_with_vpu' = eos_with_vpu - 1
    /\ buffers_with_vpu' = [buffers_with_vpu EXCEPT !["ip"] = @ - 1]
    /\ ip_buffer_cb_eos
    /\ UNCHANGED <<audio, evt, ncmds, nfail, streams, enabled, inflight,
                   ready, vb2state, vb2flags, frame_cmplt, spc,
                   drain_timed_out, component_enabled, component,
                   num_streaming, num_buffers, eos_events, nqueued>>

\* bcm2835_isp_node_start_streaming.
bcm2835_isp_node_start_streaming(p) ==
    /\ p \in streams /\ p \in IspPorts
    /\ spc[p] = "off"
    /\ \E ok_comp, ok_port \in BOOLEAN :
         LET fails == B2N(~ok_comp) + B2N(ok_comp /\ ~ok_port)
             ok == ok_comp /\ ok_port
         IN  /\ nfail + fails <= MaxFails
             /\ (~ok_comp => ok_port)
             /\ nfail' = nfail + fails
             /\ component' = [component EXCEPT !["isp"] = @ \/ ok_comp]
             /\ enabled' = [enabled EXCEPT ![p] = ok]
             /\ num_streaming' = num_streaming + B2N(ok)
             /\ num_buffers' = IF ok_comp
                               THEN [num_buffers EXCEPT ![p] = 0]
                               ELSE num_buffers
             /\ spc' = [spc EXCEPT ![p] = IF ok THEN "on" ELSE "off"]
    /\ UNCHANGED <<audio, evt, eosb, streams, buffers_with_vpu, inflight, ready,
                   vb2state, vb2flags, frame_cmplt, drain_timed_out,
                   component_enabled, eos_events, nqueued>>

StopBegin_NoFlush(p) ==
    /\ p \in streams
    /\ spc[p] = "on"
    /\ QueueLockFree(p)
    /\ frame_cmplt' = [frame_cmplt EXCEPT ![Owner(p)] = 0]
    /\ drain_timed_out' = [drain_timed_out EXCEPT ![p] = FALSE]
    /\ spc' = [spc EXCEPT ![p] = "disable"]
    /\ UNCHANGED <<audio, evt, eosb, nfail, streams, enabled, buffers_with_vpu,
                   inflight, ready, vb2state, vb2flags, component_enabled,
                   component, num_streaming, num_buffers, eos_events,
                   nqueued>>

\* stop_streaming up to the call that disables the port: the completion
\* is re-initialised and the codec returns the buffers of the mem2mem
\* ready list in the ERROR state (an ISP node keeps no such list).
StopBegin(p) ==
    /\ p \in streams
    /\ spc[p] = "on"
    /\ QueueLockFree(p)
    /\ frame_cmplt' = [frame_cmplt EXCEPT ![Owner(p)] = 0]
    /\ vb2state' =
         [vb2state EXCEPT ![p] =
            [b \in Bufs |-> IF b \in Range(ready[p]) THEN "ERROR" ELSE @[b]]]
    /\ ready' = [ready EXCEPT ![p] = <<>>]
    /\ drain_timed_out' = [drain_timed_out EXCEPT ![p] = FALSE]
    /\ spc' = [spc EXCEPT ![p] = "disable"]
    /\ UNCHANGED <<audio, evt, eosb, nfail, streams, enabled, buffers_with_vpu,
                   inflight, vb2flags, component_enabled, component,
                   num_streaming, num_buffers, eos_events, nqueued>>

\* stop_streaming disables the port, which asks the remote side to flush
\* the buffers back, and goes on to the drain loop.
StopPortDisable(p) ==
    /\ spc[p] = "disable"
    /\ vchiq_mmal_port_disable(p)
    /\ spc' = [spc EXCEPT ![p] = "drain"]
    /\ UNCHANGED <<audio, evt, eosb, nfail, streams, buffers_with_vpu, inflight,
                   ready, vb2state, vb2flags, frame_cmplt, drain_timed_out,
                   component_enabled, component, num_streaming,
                   num_buffers, eos_events, nqueued>>

\* while (atomic_read(&port->buffers_with_vpu))
DrainCheck(p) ==
    /\ spc[p] = "drain"
    /\ spc' = [spc EXCEPT ![p] = IF buffers_with_vpu[p] # 0
                                 THEN "wait" ELSE "cleanup"]
    /\ UNCHANGED <<audio, evt, eosb, nfail, streams, enabled, buffers_with_vpu,
                   inflight, ready, vb2state, vb2flags, frame_cmplt,
                   drain_timed_out, component_enabled, component,
                   num_streaming, num_buffers, eos_events, nqueued>>

\* wait_for_completion_timeout returns on a completion: the loop goes on.
DrainWake(p) ==
    /\ spc[p] = "wait"
    /\ frame_cmplt[Owner(p)] > 0
    /\ frame_cmplt' = [frame_cmplt EXCEPT ![Owner(p)] = @ - 1]
    /\ spc' = [spc EXCEPT ![p] = "drain"]
    /\ UNCHANGED <<audio, evt, eosb, nfail, streams, enabled, buffers_with_vpu,
                   inflight, ready, vb2state, vb2flags, drain_timed_out,
                   component_enabled, component, num_streaming,
                   num_buffers, eos_events, nqueued>>

DrainTimeout_Retry(p) ==
    /\ spc[p] = "wait"
    /\ frame_cmplt[Owner(p)] = 0
    /\ drain_timed_out' = [drain_timed_out EXCEPT ![p] = TRUE]
    /\ spc' = [spc EXCEPT ![p] = "drain"]
    /\ UNCHANGED <<audio, evt, eosb, nfail, streams, enabled, buffers_with_vpu,
                   inflight, ready, vb2state, vb2flags, frame_cmplt,
                   component_enabled, component, num_streaming,
                   num_buffers, eos_events, nqueued>>

\* wait_for_completion_timeout elapses (one second without a completion):
\* the timeout is logged and the loop is left.
DrainTimeout(p) ==
    /\ spc[p] = "wait"
    /\ frame_cmplt[Owner(p)] = 0
    /\ drain_timed_out' = [drain_timed_out EXCEPT ![p] = TRUE]
    /\ spc' = [spc EXCEPT ![p] = "cleanup"]
    /\ UNCHANGED <<audio, evt, eosb, nfail, streams, enabled, buffers_with_vpu,
                   inflight, ready, vb2state, vb2flags, frame_cmplt,
                   component_enabled, component, num_streaming,
                   num_buffers, eos_events, nqueued>>

\* The end of bcm2835_codec_stop_streaming: the component is disabled
\* when neither port is enabled, and the call returns.
CodecStopFinish(p) ==
    /\ p \in CodecPorts
    /\ spc[p] = "cleanup"
    /\ component' = IF \A q \in CodecPorts : ~enabled[q]
                    THEN [component EXCEPT !["codec"] = FALSE]
                    ELSE component
    /\ spc' = [spc EXCEPT ![p] = "off"]
    /\ UNCHANGED <<audio, evt, eosb, nfail, streams, enabled, buffers_with_vpu,
                   inflight, ready, vb2state, vb2flags, frame_cmplt,
                   drain_timed_out, component_enabled, num_streaming,
                   num_buffers, eos_events, nqueued>>

\* bcm2835_isp_node_stop_streaming after the drain loop: the VCSM handles
\* are released and  atomic_dec(&dev->num_streaming).
IspStopDec(p) ==
    /\ p \in IspPorts
    /\ spc[p] = "cleanup"
    /\ num_streaming' = num_streaming - 1
    /\ spc' = [spc EXCEPT ![p] = "check"]
    /\ UNCHANGED <<audio, evt, eosb, nfail, streams, enabled,
                   buffers_with_vpu, inflight, ready, vb2state, vb2flags,
                   frame_cmplt, drain_timed_out, component_enabled,
                   component, num_buffers, eos_events, nqueued>>

\* if (atomic_read(&dev->num_streaming) == 0) the component is disabled;
\* the call goes on to its last wait.
IspStopFinish(p) ==
    /\ p \in IspPorts
    /\ spc[p] = "check"
    /\ component' = IF num_streaming = 0
                    THEN [component EXCEPT !["isp"] = FALSE]
                    ELSE component
    /\ spc' = [spc EXCEPT ![p] = "wait_all"]
    /\ UNCHANGED <<audio, evt, eosb, nfail, streams, enabled,
                   buffers_with_vpu, inflight, ready, vb2state, vb2flags,
                   frame_cmplt, drain_timed_out, component_enabled,
                   num_streaming, num_buffers, eos_events, nqueued>>

\* vb2_wait_for_all_buffers returns when the driver owns no buffer of the
\* queue.
IspWaitAll(p) ==
    /\ p \in IspPorts
    /\ spc[p] = "wait_all"
    /\ \A b \in Bufs : vb2state[p][b] # "ACTIVE"
    /\ spc' = [spc EXCEPT ![p] = "off"]
    /\ UNCHANGED <<audio, evt, eosb, nfail, streams, enabled, buffers_with_vpu,
                   inflight, ready, vb2state, vb2flags, frame_cmplt,
                   drain_timed_out, component_enabled, component,
                   num_streaming, num_buffers, eos_events, nqueued>>

(* ----------------------- video specification --------------------------- *)

VideoInit ==
    /\ force_bulk = FALSE
    /\ AudioIdle
    /\ VideoIdle
    /\ streams \in PortSets

VideoNext ==
    \/ \E p \in Ports : bcm2835_codec_start_streaming(p)
    \/ \E p \in Ports : bcm2835_isp_node_start_streaming(p)
    \/ \E p \in Ports : bcm2835_codec_buf_queue(p)
    \/ \E p \in Ports : bcm2835_isp_node_buffer_queue(p)
    \/ device_run
    \/ \E p \in Ports : BufferReturn(p)
    \/ \E p \in Ports : DQBuf(p)
    \/ \E p \in Ports : StopBegin(p)
    \/ \E p \in Ports : StopPortDisable(p)
    \/ \E p \in Ports : DrainCheck(p)
    \/ \E p \in Ports : DrainWake(p)
    \/ \E p \in Ports : DrainTimeout(p)
    \/ \E p \in Ports : CodecStopFinish(p)
    \/ \E p \in Ports : IspStopDec(p)
    \/ \E p \in Ports : IspStopFinish(p)
    \/ \E p \in Ports : IspWaitAll(p)

VideoSpec == VideoInit /\ [][VideoNext]_vars

\* The video ports with a remote side that also sends events.
EventNext ==
    \/ VideoNext
    \/ \E p \in Ports : PortEvent(p)

EventSpec == VideoInit /\ [][EventNext]_vars

\* The video ports with an application that also issues STOP commands.
EosNext ==
    \/ VideoNext
    \/ vidioc_decoder_cmd
    \/ EosBufferReturn

EosSpec == VideoInit /\ [][EosNext]_vars

\* A thread inside stop_streaming keeps running, and a wait with a
\* timeout ends one way or the other.
FairVideoSpec ==
    /\ VideoSpec
    /\ \A p \in Ports :
         /\ WF_vars(StopPortDisable(p))
         /\ WF_vars(DrainCheck(p))
         /\ WF_vars(DrainWake(p) \/ DrainTimeout(p))
         /\ WF_vars(CodecStopFinish(p))
         /\ WF_vars(IspStopDec(p))
         /\ WF_vars(IspStopFinish(p))

(* ------------------------------ claims --------------------------------- *)
CeilDiv(a, b) == (a + b - 1) \div b

\* The transport calls made under the lock acquisition k, in order.
Segment(k) == SelectSeq(wire, LAMBDA e : e.tk = k)

\* The thread is between enqueueing a synchronous request and returning
\* from its wait.
InSyncCall(t) == pc[t] \in {"sml_wait", "sml_result"}

\* bcm2835_audio_write(size > 0) is about to return.
WriteDone(t) == pc[t] = "return" /\ frame[t].api = "write" /\ frame[t].arg > 0

\* The WRITE control message of the write was accepted by the transport.
CtlAccepted(t) == Segment(tk[t]) # <<>> /\ Segment(tk[t])[1].ok

IsWriteCtl(e, size) ==
    e.kind = "msg" /\ e.type = "WRITE" /\ e.len = size /\ e.ok

\* The payload units p cover the bytes 0 .. size-1 of the buffer, in order,
\* without gap or overlap.
Tiles(p, size) ==
    /\ p # <<>>
    /\ p[1].off = 0
    /\ \A k \in 1..(Len(p) - 1) : p[k + 1].off = p[k].off + p[k].len
    /\ p[Len(p)].off + p[Len(p)].len = size

\* C1: synchronous calls on one channel are strictly serialized: at most one
\* thread is between enqueueing its request and returning from the wait, and
\* the last message handed to the transport is then its own request (no
\* other thread has enqueued anything since).
C1_SyncCallsSerialized ==
    /\ Cardinality({t \in Threads : InSyncCall(t)}) <= 1
    /\ \A t \in Threads : InSyncCall(t) =>
         /\ wire # <<>>
         /\ wire[Len(wire)].t = t
         /\ wire[Len(wire)].tk = tk[t]
         /\ wire[Len(wire)].kind = "msg"

C1_Witness ==
    \E t, u \in Threads :
        /\ t # u
        /\ pc[t] = "sml_wait"
        /\ pc[u] = "sm_lock" /\ frame[u].wait

\* C2: a synchronous call whose request was accepted and during whose wait no
\* RESULT is dispatched leaves the wait only by returning -ETIMEDOUT with the
\* channel lock released, and no wait lasts forever.
C2_TimeoutReturns ==
    /\ [][\A t \in Threads :
            (pc[t] = "sml_wait" /\ done = 0 /\ pc'[t] # "sml_wait") =>
                /\ pc'[t] \in {"return", "close_deinit"}
                /\ frame'[t].err = -ETIMEDOUT
                /\ t \notin vchi_mutex']_vars
    /\ \A t \in Threads : (pc[t] = "sml_wait") ~> (pc[t] # "sml_wait")

C2_Witness ==
    \E t \in Threads :
        /\ pc[t] = "return"
        /\ frame[t].wait
        /\ frame[t].err = -ETIMEDOUT
        /\ tk[t] \in timed_out
        /\ vchi_mutex = {}

\* C3 (as claimed): a RESULT that answers a request whose call has timed out
\* never wakes a later synchronous call and never supplies its result code.
C3_LateResultDiscarded ==
    \A t \in Threads : pc[t] = "sml_result" => last_sig.re \notin timed_out

\* C4: a RESULT dispatched writes its code to the result slot and signals the
\* waiter; the woken call finds in the slot the code of the RESULT dispatched
\* last, and returns 0 if and only if that code is 0, and -EIO otherwise.
C4_ResultDecidesReturn ==
    /\ [](\A t \in Threads : pc[t] = "sml_result" => result = last_sig.code)
    /\ [][\A i \in owed, code \in ResultCodes :
            DeliverResult(i, code) => result' = code /\ done' = done + 1]_vars
    /\ [][\A t \in Threads :
            (pc[t] = "sml_result" /\ pc'[t] # "sml_result") =>
                /\ last_sig.code = 0 =>
                     /\ frame'[t].err = 0
                     /\ pc'[t] \in {"return", "sm_lock", "close_deinit"}
                /\ last_sig.code # 0 =>
                     /\ frame'[t].err = -EIO
                     /\ pc'[t] \in {"return", "close_deinit"}]_vars

C4_Witness ==
    \E t \in Threads :
        /\ pc[t] = "return"
        /\ frame[t].api = "set_ctls"
        /\ last_sig.re = tk[t]
        /\ last_sig.code # 0
        /\ frame[t].err = -EIO

\* C5: a COMPLETE invokes bcm2835_playback_fifo, with the count it carries,
\* if and only if both cookies equal the WRITE cookies; with either cookie
\* altered it changes nothing.
C5_CompleteCookies ==
    [][\A c1 \in Cookies1, c2 \in Cookies2, n \in CompleteCounts :
          DeliverComplete(c1, c2, n) =>
              IF c1 = BCM2835_AUDIO_WRITE_COOKIE1 /\
                 c2 = BCM2835_AUDIO_WRITE_COOKIE2
                THEN fifo' = Append(fifo, n)
                ELSE UNCHANGED vars]_vars

C5_Witness == fifo # <<>> /\ fifo[Len(fifo)] = INLINE_MAX_PACKET

\* C6: on the chunked path a write of S bytes whose control message was
\* accepted hands the transport, after the WRITE control message, exactly
\* ceil(S / M) inline payload messages of 1..M bytes each, which cover the
\* S bytes of the buffer in order.
C6_ChunkedRoundTrip ==
    \A t \in Threads :
        (WriteDone(t) /\ max_packet > 0 /\ CtlAccepted(t)) =>
            LET seg == Segment(tk[t])
                p == Tail(seg)
            IN /\ IsWriteCtl(seg[1], frame[t].arg)
               /\ Len(p) = CeilDiv(frame[t].arg, max_packet)
               /\ \A k \in 1..Len(p) :
                     /\ p[k].kind = "data"
                     /\ p[k].len >= 1
                     /\ p[k].len <= max_packet
               /\ Tiles(p, frame[t].arg)

C6_Witness ==
    \E t \in Threads :
        /\ WriteDone(t)
        /\ max_packet > 0
        /\ frame[t].arg > max_packet
        /\ frame[t].arg % max_packet # 0
        /\ \A i \in 1..Len(wire) : wire[i].ok
        /\ Len(Segment(tk[t])) = 1 + MaxChunks

\* C7 (as claimed): a write in which any transport call failed returns -EIO.
C7_AnyFailureIsEIO ==
    \A t \in Threads :
        (WriteDone(t) /\ \E i \in 1..Len(wire) :
                             wire[i].tk = tk[t] /\ ~wire[i].ok)
            => frame[t].err = -EIO

\* The transfer mode follows the negotiated version and the force flag.
LowVersionOrForce == peer_version < MIN_PEER_VERSION \/ force_bulk

\* C8 (as claimed): with a peer version below 2, or the force flag set, every
\* write uses chunked inline transfer.
C8_LowVersionOrForceChunked ==
    \A i \in 1..Len(wire) :
        (wire[i].kind # "msg" /\ LowVersionOrForce) => wire[i].kind = "data"

\* C8 (amended): with a peer version below 2, or the force flag set,
\* max_packet is 0 and every write uses the bulk transfer; otherwise
\* max_packet is 4000 and every write uses chunked inline transfer.
C8_LowVersionOrForceBulk ==
    /\ Opened => max_packet = IF LowVersionOrForce THEN 0
                              ELSE INLINE_MAX_PACKET
    /\ \A i \in 1..Len(wire) :
          /\ wire[i].kind = "bulk" => LowVersionOrForce
          /\ wire[i].kind = "data" => ~LowVersionOrForce

C8_Witness ==
    /\ peer_version < MIN_PEER_VERSION
    /\ ~force_bulk
    /\ \E i \in 1..Len(wire) : wire[i].kind = "bulk" /\ wire[i].ok

\* C9: a write sends its WRITE control message first, without waiting for a
\* reply, and its whole payload while it still holds the lock: the transport
\* calls of one lock acquisition are contiguous on the wire, the acquisitions
\* appear in the order the lock was taken, and every payload unit follows
\* the accepted WRITE control message, or a payload unit, of the same write.
C9_WriteContiguousInLockOrder ==
    /\ \A i, j \in 1..Len(wire) :
          /\ i < j => wire[i].tk <= wire[j].tk
          /\ wire[i].tk = wire[j].tk => wire[i].t = wire[j].t
    /\ \A i \in 1..Len(wire) : wire[i].kind # "msg" =>
          /\ i > 1
          /\ wire[i - 1].tk = wire[i].tk
          /\ \/ (wire[i - 1].type = "WRITE" /\ wire[i - 1].ok)
             \/ wire[i - 1].kind = "data"
    /\ \A t \in Threads :
          /\ frame[t].api = "write" => ~InSyncCall(t)
          /\ pc[t] \in {"wr_bulk", "wr_chunk"} => vchi_mutex = {t}

C9_Witness ==
    \E i, j, k, m \in 1..Len(wire) :
        /\ i < j /\ j < k
        /\ wire[i].type = "WRITE"
        /\ wire[j].kind = "data" /\ wire[k].kind = "data"
        /\ wire[j].tk = wire[i].tk /\ wire[k].tk = wire[i].tk
        /\ wire[m].t # wire[i].t

\* C10: on the bulk path a write of size > 0 whose control message was
\* accepted makes exactly two transport calls: the WRITE control message
\* announcing count = size, then one bulk transfer of size bytes; no inline
\* payload message is sent while max_packet is 0.
C10_BulkPath ==
    /\ \A i \in 1..Len(wire) : wire[i].kind = "data" => max_packet > 0
    /\ \A t \in Threads :
          (WriteDone(t) /\ max_packet = 0 /\ CtlAccepted(t)) =>
              LET seg == Segment(tk[t])
              IN /\ Len(seg) = 2
                 /\ IsWriteCtl(seg[1], frame[t].arg)
                 /\ seg[2].kind = "bulk"
                 /\ seg[2].off = 0
                 /\ seg[2].len = frame[t].arg

C10_Witness ==
    \E t \in Threads :
        /\ WriteDone(t)
        /\ max_packet = 0
        /\ frame[t].arg > INLINE_MAX_PACKET
        /\ frame[t].err = 0
        /\ Len(Segment(tk[t])) = 2
        /\ Segment(tk[t])[2].ok

\* The thread is inside a region opened by bcm2835_audio_lock.
InLockedRegion(t) ==
    pc[t] \in {"sml_queue", "sml_wait", "sml_result", "wr_bulk", "wr_chunk",
               "open_ver"}

\* The step is a run of vc_vchi_audio_deinit by the thread t.
DeinitStep(t) == pc[t] \in {"open_deinit", "close_deinit"} /\ pc'[t] = "return"

\* The step is the vchi_service_open of vc_vchi_audio_init by the thread t.
ServiceOpenStep(t) == pc[t] = "open_init" /\ pc'[t] # "open_init"

\* C11 (as claimed): after any completed operation, deinit included, the
\* mutex is free and the use / release calls on the service are balanced.
C11_LockUseBalanced ==
    (\A t \in Threads : pc[t] \in {"idle", "return"}) =>
        vchi_mutex = {} /\ use_count = 0

\* C11 (amended): send_msg, write and the peer-version query take the mutex
\* and then the in-use mark and have released both on every exit path: a
\* thread holds the mutex only inside such a region, and every step changes
\* the use count exactly as it changes the set of holders.  The exception is
\* deinit, which takes the mutex and the in-use mark, closes the service and
\* releases the mutex only: it leaves the mutex free and one use unreleased.
C11_LockUseScoped ==
    /\ [](\A t \in Threads : t \in vchi_mutex => InLockedRegion(t))
    /\ []((\A t \in Threads : pc[t] \in {"idle", "return"}) => vchi_mutex = {})
    /\ [][\A t \in Threads :
            IF DeinitStep(t)
              THEN use_count' = use_count + 1 /\ vchi_mutex' = {}
                   /\ vchi_mutex = {}
              ELSE IF ServiceOpenStep(t)
                THEN use_count' = 0 \/ use_count' = use_count
                ELSE (\A u \in Threads : ~DeinitStep(u) /\ ~ServiceOpenStep(u))
                       => use_count' - use_count =
                            Cardinality(vchi_mutex') - Cardinality(vchi_mutex)
         ]_vars

C11_Witness ==
    \E t \in Threads :
        /\ pc[t] = "return"
        /\ frame[t].api = "write"
        /\ frame[t].err = -EIO
        /\ \E i \in 1..Len(wire) : wire[i].kind = "data" /\ ~wire[i].ok
        /\ vchi_mutex = {}
        /\ use_count = 0

\* C17: the dispatch callback never takes the channel mutex: no dispatch step
\* changes who holds it, and while a submitter waits for a RESULT (holding
\* the mutex) either a completion is already pending for it or the RESULT
\* that answers its request can be dispatched at once.
C17_DispatchNotBlockedBySubmitter ==
    /\ [][ncb' # ncb => vchi_mutex' = vchi_mutex]_vars
    /\ [](\A t \in Threads : pc[t] = "sml_wait" =>
            /\ t \in vchi_mutex
            /\ \/ done > 0
               \/ /\ tk[t] \in owed
                  /\ ncb < MaxCb => ENABLED DeliverResult(tk[t], 0))

C17_Witness ==
    \E t \in Threads :
        /\ pc[t] = "sml_result"
        /\ vchi_mutex = {t}
        /\ last_sig.re = tk[t]
        /\ ncb > 0

\* The step is an invocation of audio_vchi_callback that gets past the
\* reason test and the dequeue: it writes the result slot and signals the
\* completion, or reads the stream back-reference for the playback callback.
CallbackTouchesInstance == ncb' # ncb

\* C18 (as claimed): once bcm2835_audio_close has freed the instance, no
\* dispatch callback reads or writes it.
C18_NoDispatchAfterFree ==
    [][CallbackTouchesInstance => instance = "inst" /\ kfree_count = 0]_vars

\* bcm2835_audio_open is about to return a negative error.
OpenFailed(t) == pc[t] = "return" /\ frame[t].api = "open" /\ frame[t].err < 0

\* C19: when the allocation, the opening of the transport service or the
\* queueing of the OPEN message fails, bcm2835_audio_open returns a negative
\* error (-ENOMEM, -EPERM, -EIO) with alsa_stream->instance NULL, having
\* handed the transport at most the one OPEN message: nothing is retried.
\* And it fails only then: after an accepted OPEN it returns 0.
C19_OpenFailureIsTerminal ==
    /\ [](\A t \in Threads : OpenFailed(t) =>
            /\ instance = "NULL"
            /\ frame[t].err \in {-ENOMEM, -EPERM, -EIO}
            /\ Len(wire) <= 1
            /\ frame[t].err = -EIO <=>
                 (Len(wire) = 1 /\ wire[1].type = "OPEN" /\ ~wire[1].ok)
            /\ t \notin vchi_mutex)
    /\ [][\A t \in Threads :
            (pc[t] = "open_init" /\ service' # "open") =>
                pc'[t] = "return" /\ frame'[t].err = -EPERM
                /\ instance' = "NULL"]_vars
    /\ [](\A t \in Threads :
            (pc[t] = "return" /\ frame[t].api = "open" /\ frame[t].err = 0)
                => instance = "inst" /\ service = "open")

C19_Witness ==
    \E t \in Threads :
        /\ OpenFailed(t)
        /\ frame[t].err = -EPERM
        /\ instance = "NULL"
        /\ service = "closed"

\* The step ends the synchronous call of the thread t with an error.
SyncCallFails(t) ==
    /\ frame[t].wait
    /\ pc[t] \in {"sml_queue", "sml_wait", "sml_result"}
    /\ pc'[t] \in {"return", "close_deinit"}
    /\ frame'[t].err \in {-ETIMEDOUT, -EIO}

\* C20: a synchronous call that ends in -ETIMEDOUT or -EIO leaves the channel
\* as it was: the step that ends it changes neither the instance, the
\* service, max_packet nor the peer version and leaves the lock free; and
\* when set_ctls or set_params returns such an error the stream is still
\* open, so that a later call can be issued.
C20_FailedCallLeavesChannelOpen ==
    /\ [][\A t \in Threads : SyncCallFails(t) =>
            /\ UNCHANGED <<instance, service, max_packet, peer_version>>
            /\ service' = "open"
            /\ vchi_mutex' = {}]_vars
    /\ [](\A t \in Threads :
            (pc[t] = "return" /\ frame[t].api \in {"set_ctls", "set_params"}
               /\ frame[t].err < 0) =>
                /\ frame[t].err \in {-ETIMEDOUT, -EIO}
                /\ Opened
                /\ service = "open"
                /\ t \notin vchi_mutex)

C20_Witness ==
    \E t, u \in Threads :
        /\ pc[t] = "return"
        /\ frame[t].api \in {"set_ctls", "set_params"}
        /\ frame[t].err = -ETIMEDOUT
        /\ pc[u] = "sml_wait"
        /\ tk[u] > tk[t]
        /\ service = "open"

(* --------------------- video buffer ownership -------------------------- *)

\* The driver completes buffer b of port p in this step (vb2_buffer_done,
\* v4l2_m2m_buf_done).
Completes(p, b) ==
    /\ vb2state'[p][b] \in {"DONE", "ERROR"}
    /\ vb2state'[p][b] # vb2state[p][b]

\* The remote side returns buffer b of port p in this step.
Returns(p, b) == b \in inflight[p] /\ b \notin inflight'[p]

\* bcm2835_codec_stop_streaming returns buffer b, still on the mem2mem ready
\* list, in this step.
Flushes(p, b) ==
    /\ p \in CodecPorts
    /\ b \in Range(ready[p])
    /\ spc[p] = "on" /\ spc'[p] = "disable"
    /\ vb2state'[p][b] = "ERROR"

\* C12 as stated: a buffer is completed back to the producer only while
\* it is in flight (PRODUCER -> IN-FLIGHT -> DONE|ERROR, no state skipped).
C12_CompletedOnlyInFlight ==
    [][\A p \in Ports, b \in Bufs : Completes(p, b) => b \in inflight[p]]_vars

\* C12, amended: a buffer the remote side holds is never owned by the
\* producer nor waiting on the ready list; the driver completes a buffer
\* only when the remote side returns it (once for each return, from the
\* ACTIVE state) or when the codec's stop_streaming returns a buffer of the
\* ready list, never submitted, in the ERROR state; only a buffer the
\* producer has queued is submitted.
C12_OwnershipSequence ==
    /\ [](\A p \in Ports : \A b \in inflight[p] :
            /\ vb2state[p][b] = "ACTIVE"
            /\ b \notin Range(ready[p]))
    /\ [][\A p \in Ports, b \in Bufs :
            /\ Completes(p, b) =>
                 /\ vb2state[p][b] = "ACTIVE"
                 /\ Returns(p, b) \/ Flushes(p, b)
            /\ Returns(p, b) => Completes(p, b)
            /\ (b \notin inflight[p] /\ b \in inflight'[p]) =>
                 /\ vb2state[p][b] \in {"DEQUEUED", "ACTIVE"}
                 /\ vb2state'[p][b] = "ACTIVE"]_vars

\* A codec queue is being stopped with one buffer returned by the remote
\* side as DONE and another one completed in the ERROR state.
C12_Witness ==
    \E p \in CodecPorts, b1, b2 \in Bufs :
        /\ spc[p] = "drain"
        /\ vb2state[p][b1] = "DONE" /\ num_buffers[p] = 1
        /\ vb2state[p][b2] = "ERROR"
        /\ inflight[p] = {}

(* ------------------------- the drain of a port ------------------------- *)

\* stop_streaming of port p leaves its drain loop by the timeout in this
\* step.
HitsTimeout(p) == spc[p] = "wait" /\ spc'[p] = "cleanup"

\* C13: when the remote side has returned every buffer that was in flight
\* on the port being stopped, the drain wait does not end by its timeout,
\* whatever status, length and flags the buffers came back with.
C13_NoTimeoutWhenAllReturned ==
    [][\A p \in Ports : HitsTimeout(p) => inflight[p] # {}]_vars

\* The port is being disabled: stop_streaming has disabled it and is in
\* its drain loop.
Disabling(p) == ~enabled[p] /\ spc[p] \in {"drain", "wait"}

\* C14: a buffer return that brings the in-flight counter of a port to
\* zero while the port is being disabled signals frame_cmplt.
C14_LastReturnSignalsDrain ==
    [][\A p \in Ports :
          ( /\ Disabling(p)
            /\ buffers_with_vpu[p] > 0
            /\ buffers_with_vpu'[p] = 0 )
          => frame_cmplt'[Owner(p)] = frame_cmplt[Owner(p)] + 1]_vars

\* C15: the codec's stop_streaming always terminates.  A wait that elapses
\* without a completion ends the drain loop at once, and the call then runs
\* to its end even when the remote side never returns the buffers.
C15_CodecStopTerminates ==
    /\ [][\A p \in CodecPorts :
            (spc[p] = "wait" /\ frame_cmplt["ctx"] = 0 /\ spc'[p] # "wait")
            => (spc'[p] = "cleanup" /\ drain_timed_out'[p])]_vars
    /\ \A p \in CodecPorts : (spc[p] \in StopSteps) ~> (spc[p] = "off")

\* stop_streaming of a codec queue has returned after its drain timed out,
\* with a buffer the remote side never returned.
C15_Witness ==
    \E p \in CodecPorts :
        /\ spc[p] = "off"
        /\ drain_timed_out[p]
        /\ inflight[p] # {}

\* stop_streaming of port p is past its teardown code: the codec's call
\* has returned, the ISP's call is in (or past) vb2_wait_for_all_buffers.
TornDown(p) == spc[p] \in {"wait_all", "off"}

\* C16: once the drain wait of a port has expired and the teardown code
\* has run, every buffer the remote side still holds has been completed
\* back to the producer in the ERROR state.
C16_TimedOutBuffersForcedError ==
    \A p \in Ports :
        (drain_timed_out[p] /\ TornDown(p)) =>
            \A b \in inflight[p] : vb2state[p][b] = "ERROR"

(* ------------------- calls that do not wait (audio) -------------------- *)

\* Thread t is inside send_msg for a message sent with wait = false by
\* start, stop, drain or open.
InNoWaitCall(t) ==
    /\ frame[t].api \in {"start", "stop", "drain", "open"}
    /\ frame[t].type \in {"START", "STOP", "OPEN"}

\* C21: drain enqueues STOP with draining = 1 and wait = false, and a call
\* made with wait = false (drain, start, stop, the OPEN of open) never
\* waits for a RESULT: its transport call can always be made, and once made
\* send_msg unlocks and returns, touching neither the result slot nor the
\* completion.
C21_NoWaitCallsReturn ==
    /\ [](\A t \in Threads :
            /\ pc[t] \in {"sml_wait", "sml_result"} => frame[t].wait
            /\ InNoWaitCall(t) => ~frame[t].wait
            /\ (pc[t] = "sml_queue" /\ InNoWaitCall(t)) =>
                 ENABLED SendQueue(t))
    /\ [][\A t \in Threads :
            (pc[t] = "sml_queue" /\ InNoWaitCall(t) /\ pc'[t] # "sml_queue")
            => /\ pc'[t] \in {"return", "open_deinit", "open_ver_lock"}
               /\ t \notin vchi_mutex'
               /\ <<result, done>>' = <<result, done>>
               /\ Len(wire') = Len(wire) + 1
               /\ wire'[Len(wire')].type = frame[t].type
               /\ frame[t].api = "drain" =>
                    /\ wire'[Len(wire')].type = "STOP"
                    /\ wire'[Len(wire')].len = 1]_vars

\* drain has returned 0 while the RESULT that answers its STOP has not
\* been dispatched.
C21_Witness ==
    \E t \in Threads :
        /\ frame[t].api = "drain"
        /\ pc[t] = "return"
        /\ frame[t].err = 0
        /\ tk[t] \in owed
        /\ vchi_mutex = {}

(* ------------------- unexpected dispatches (audio) --------------------- *)

\* A dispatch of a message that is neither RESULT nor COMPLETE which
\* changes the result slot, the completion or the playback fifo.
DispatchOtherChanges ==
    /\ DispatchOther
    /\ <<result, done, last_sig, fifo, ncb>>'
         # <<result, done, last_sig, fifo, ncb>>

\* A callback for another reason than MSG_AVAILABLE which changes the
\* result slot, the completion or the playback fifo.
DispatchReasonChanges ==
    /\ DispatchReason
    /\ <<result, done, last_sig, fifo, ncb>>'
         # <<result, done, last_sig, fifo, ncb>>

\* C23: a callback whose reason is not MSG_AVAILABLE, and a dequeued
\* message that is neither RESULT nor COMPLETE, change nothing: in no
\* state does such a callback have a step that writes the result slot,
\* signals the completion or invokes the playback callback.
C23_UnexpectedDispatchIsNoOp ==
    /\ ~ENABLED DispatchOtherChanges
    /\ ~ENABLED DispatchReasonChanges

\* A synchronous call waits, nothing is signalled, and an unexpected
\* message or callback reason can be dispatched.
C23_Witness ==
    \E t \in Threads :
        /\ pc[t] = "sml_wait"
        /\ done = 0
        /\ ENABLED DispatchOther
        /\ ENABLED DispatchReason

(* ------------------------- events (video) ------------------------------ *)

\* The step is the callback of port p run for an event.
EventOn(p) == nevents'[p] # nevents[p]

\* C22: a format-changed event on the codec output port, with status 0 and
\* a video format, sets the capture queue's crop size, bytesperline, height
\* and sizeimage from the event, queues exactly one source-change event,
\* and completes no buffer: no buffer changes state, num_op_buffers stays
\* and frame_cmplt is not signalled.
C22_FormatChangedEffect ==
    [][\A f \in FormatEvents, fault \in BOOLEAN :
          ( /\ EventOn("op")
            /\ f.type = "VIDEO"
            /\ op_buffer_cb_cmd(0, "FORMAT_CHANGED", f, fault) )
          => /\ capture_fmt'.crop_width = f.crop_width
             /\ capture_fmt'.crop_height = f.crop_height
             /\ capture_fmt'.bytesperline
                  = ALIGN((f.width * CaptureDepth) \div 8, CaptureAlign)
             /\ capture_fmt'.height = f.height
             /\ capture_fmt'.sizeimage = f.buffer_size_min
             /\ src_chg_events' = src_chg_events + 1
             /\ UNCHANGED <<vb2state, vb2flags, inflight, buffers_with_vpu,
                            num_buffers, eos_events, frame_cmplt, oops>>]_vars

\* A format-changed event has been handled while stop_streaming of the
\* output port waits for its last buffer: the format is the event's, one
\* source-change event is queued and the waiter has not been signalled.
C22_Witness ==
    /\ nevents["op"] = 1
    /\ src_chg_events = 1
    /\ capture_fmt.crop_width = 40 /\ capture_fmt.crop_height = 30
    /\ capture_fmt.bytesperline = 64 /\ capture_fmt.height = 32
    /\ capture_fmt.sizeimage = 4608
    /\ spc["op"] = "wait" /\ inflight["op"] # {}
    /\ frame_cmplt["ctx"] = 0

\* C24: an event (cmd != 0) on the codec input port or on an ISP port is
\* only logged: its callback completes no buffer, advances no buffer
\* counter or sequence number and signals nothing.
C24_UnexpectedEventIsNoOp ==
    [][\A p \in {"ip"} \cup IspPorts :
          EventOn(p) =>
              UNCHANGED <<vb2state, vb2flags, inflight, buffers_with_vpu,
                          num_buffers, eos_events, frame_cmplt,
                          capture_fmt, src_chg_events>>]_vars

(* ------------------ arming before the enqueue (audio) ------------------ *)

\* Thread t is in a call made with wait = true, between the arming of the
\* completion and the end of its wait.
ArmedCall(t) == frame[t].wait /\ pc[t] \in {"sml_queue", "sml_wait"}

\* The RESULT that answers the request of thread t is dispatched in this
\* step.
OwnResultDispatched(t) ==
    /\ tk[t] \in owed /\ tk[t] \notin owed'
    /\ ncb' # ncb
    /\ last_sig'.re = tk[t]

\* C25: a call with wait = true resets the result slot and re-arms the
\* completion before its request is enqueued, and nothing re-arms it
\* between the enqueue and the end of the wait: a RESULT dispatched while
\* the caller is still in its wait stays signalled, with its code in the
\* result slot, and the caller leaves the wait by observing it, never by
\* the timeout.
C25_ArmedBeforeEnqueue ==
    /\ [][\A t \in Threads :
            /\ (pc[t] # "sml_queue" /\ pc'[t] = "sml_queue" /\ frame'[t].wait)
               => (result' = -1 /\ done' = 0 /\ wire' = wire)
            /\ (ArmedCall(t) /\ pc[t] = "sml_queue" /\ pc'[t] # "sml_queue")
               => (Len(wire') = Len(wire) + 1 /\ done' = done
                   /\ result' = result)
            /\ (ArmedCall(t) /\ ArmedCall(t)') => done' >= done
            /\ (pc[t] = "sml_wait" /\ OwnResultDispatched(t))
               => (done' > 0 /\ result' = last_sig'.code)
            /\ (pc[t] = "sml_wait" /\ done > 0 /\ pc'[t] # "sml_wait")
               => pc'[t] = "sml_result"]_vars
    /\ [](\A t \in Threads :
            (pc[t] = "sml_wait" /\ last_sig.re = tk[t]) =>
                (done > 0 /\ result = last_sig.code))

\* The RESULT that answers a waiting call's request has been dispatched
\* with an error code and is pending for the waiter.
C25_Witness ==
    \E t \in Threads :
        /\ pc[t] = "sml_wait"
        /\ last_sig = [re |-> tk[t], code |-> 1]
        /\ done = 1 /\ result = 1

(* ----------------------- failed sends in write ------------------------- *)

\* Thread t hands a payload (bulk transfer or chunk) to the transport in
\* this step.
SendsPayload(t) ==
    /\ Len(wire') = Len(wire) + 1
    /\ wire'[Len(wire')].t = t
    /\ wire'[Len(wire')].kind \in {"bulk", "data"}

\* Every transport call the current write of thread t has made so far was
\* accepted.
NoSendFailed(t) ==
    \A i \in 1..Len(wire) :
        (wire[i].t = t /\ wire[i].tk = tk[t]) => wire[i].ok

\* C26: a failed send aborts the rest of the write: a payload is handed to
\* the transport only if the WRITE control message and every earlier chunk
\* of that write were accepted.
C26_FailedSendAbortsWrite ==
    [][\A t \in Threads : SendsPayload(t) => NoSendFailed(t)]_vars


(* ------------------- codec output callback: flags ---------------------- *)

\* The remote side returns output buffer b with status 0 and the buffer
\* header m, and op_buffer_cb handles it in this step.
OutputReturned(b, m) ==
    /\ Returns("op", b)
    /\ op_buffer_cb(b, 0, m)

\* C27: an output buffer returned with status 0, zero length and without
\* the EOS flag is completed in the ERROR state, never DONE, and raises no
\* EOS event, whatever the other flags are.
C27_EmptyNonEosBufferIsError ==
    [][\A b \in Bufs : \A m \in MmalBufs :
         (/\ OutputReturned(b, m)
          /\ m.length = 0
          /\ ~HasFlag(m.mmal_flags, MMAL_BUFFER_HEADER_FLAG_EOS))
         => (/\ vb2state'["op"][b] = "ERROR"
             /\ eos_events' = eos_events)]_vars


\* The remote side returns output buffer b with the given status and the
\* buffer header m, and op_buffer_cb handles it in this step.
OutputReturnedWith(b, status, m) ==
    /\ Returns("op", b)
    /\ op_buffer_cb(b, status, m)

\* C28: an output buffer returned with status 0 and the EOS flag raises
\* exactly one EOS event, is flagged LAST and is completed DONE; a returned
\* buffer without the EOS flag raises no EOS event and is not flagged LAST.
C28_EosFlagRaisesOneEvent ==
    [][\A b \in Bufs : \A m \in MmalBufs : \A status \in Statuses :
         OutputReturnedWith(b, status, m)
         => IF HasFlag(m.mmal_flags, MMAL_BUFFER_HEADER_FLAG_EOS)
            THEN status = 0
                 => (/\ eos_events' = eos_events + 1
                     /\ "LAST" \in vb2flags'["op"][b]
                     /\ vb2state'["op"][b] = "DONE")
            ELSE /\ eos_events' = eos_events
                 /\ "LAST" \notin vb2flags'["op"][b]]_vars

\* An output buffer has been completed DONE and LAST, with one EOS event.
C28_Witness ==
    \E b \in Bufs :
        /\ vb2state["op"][b] = "DONE"
        /\ "LAST" \in vb2flags["op"][b]
        /\ eos_events = 1


(* ---------------- stop_streaming and the ready list -------------------- *)

\* bcm2835_codec_stop_streaming of queue p empties the mem2mem ready list
\* in this step.
FlushStep(p) == p \in CodecPorts /\ spc[p] = "on" /\ spc'[p] = "disable"

\* bcm2835_codec_stop_streaming of queue p disables the port in this step.
DisableStep(p) == p \in CodecPorts /\ spc[p] = "disable" /\ spc'[p] = "drain"

\* bcm2835_codec_stop_streaming of queue p returns in this step.
StopReturns(p) == p \in CodecPorts /\ spc[p] = "cleanup" /\ spc'[p] = "off"

\* C29: codec stop_streaming returns every buffer still on the mem2mem
\* ready list in the ERROR state while the port is still enabled, the list
\* is empty when the port is disabled, and it is empty when stop_streaming
\* returns.
C29_ReadyListFlushedBeforeDisable ==
    [][\A p \in CodecPorts :
         /\ FlushStep(p)
            => /\ enabled[p] /\ enabled'[p]
               /\ \A b \in Range(ready[p]) : vb2state'[p][b] = "ERROR"
               /\ ready'[p] = <<>>
         /\ DisableStep(p)
            => /\ ready[p] = <<>>
               /\ enabled[p] /\ ~enabled'[p]
         /\ StopReturns(p) => ready'[p] = <<>>]_vars

\* stop_streaming of a codec queue has returned a ready-list buffer in the
\* ERROR state and has gone on to disable the port, with another buffer
\* still held by the remote side.
C29_Witness ==
    \E p \in CodecPorts, b1, b2 \in Bufs :
        /\ spc[p] = "drain"
        /\ ~enabled[p]
        /\ vb2state[p][b1] = "ERROR"
        /\ b2 \in inflight[p]
        /\ ready[p] = <<>>


(* -------------------- the end of the ISP teardown ---------------------- *)

\* bcm2835_isp_node_stop_streaming of node p is past its bounded drain
\* wait and has only vb2_wait_for_all_buffers left.
IspPastDrain(p) == p \in IspPorts /\ spc[p] = "wait_all"

\* Every buffer of node p that the driver owns is held by the remote peer.
PeerHoldsAllActive(p) ==
    \A b \in Bufs : vb2state[p][b] = "ACTIVE" => b \in inflight[p]

\* C30: stop_streaming of an ISP node never depends on the remote peer to
\* terminate: past the bounded drain wait it can always go on and return,
\* also while the peer still holds buffers.
C30_IspStopNeverBlocks ==
    \A p \in IspPorts :
        (/\ IspPastDrain(p)
         /\ PeerHoldsAllActive(p))
        => ENABLED IspWaitAll(p)


(* ------------------ replies to messages nobody waits for --------------- *)

\* The peer answers, in this step, the message i, which was sent with
\* wait = false, with a RESULT carrying code.
AnswersUnwaited(i, code) ==
    /\ i \in unwaited
    /\ DeliverResult(i, code)

\* Thread t is blocked in the wait of a synchronous call.
Waiting(t) == pc[t] = "sml_wait"

\* C31 (as claimed): a RESULT that replies to an earlier message sent with
\* wait = false never wakes a later synchronous call and never supplies
\* its return code: while a call waits, such a RESULT leaves the result
\* slot and the completion alone.
C31_UnwaitedReplyNeverWakes ==
    [][\A i \in owed, code \in ResultCodes :
         AnswersUnwaited(i, code)
         => \A t \in Threads :
                Waiting(t) => (done' = done /\ result' = result)]_vars


(* --------------------- the instance's lifetime ------------------------- *)

\* bcm2835_audio_open, having allocated the instance, is about to return
\* an error, or bcm2835_audio_close is about to return: the instance is
\* gone.
InstanceReleased(t) ==
    /\ pc[t] = "return"
    /\ \/ frame[t].api = "open" /\ frame[t].err < 0 /\ frame[t].err # -ENOMEM
       \/ frame[t].api = "close"

\* C32 (as claimed): the instance allocated by bcm2835_audio_open is freed
\* exactly once: never twice, and once on each failure path of open and in
\* close.
C32_InstanceFreedOnce ==
    /\ kfree_count <= 1
    /\ \A t \in Threads : InstanceReleased(t) => kfree_count = 1


(* ------------------------ failed submissions --------------------------- *)

\* Buffer b of port p is owned by the driver and is neither waiting on the
\* mem2mem ready list nor held by the remote side.
Orphaned(p, b) ==
    /\ vb2state[p][b] = "ACTIVE"
    /\ b \notin Range(ready[p])
    /\ b \notin inflight[p]

\* C33 (as claimed): a buffer that device_run took off a ready list, or
\* that the ISP buffer_queue handed to submit, is in flight or has been
\* completed back to the producer: no buffer is left owned by neither side.
C33_NoBufferOrphaned ==
    \A p \in Ports : \A b \in Bufs : ~Orphaned(p, b)


(* --------------------- the codec component's state --------------------- *)

\* Codec queue p streams: its start_streaming has enabled the port.
PortStreaming(p) == p \in CodecPorts /\ enabled[p]

\* C34 (as claimed): whenever a codec port is enabled for streaming the
\* component is enabled on the remote side, over any sequence of
\* start_streaming and stop_streaming calls in which no remote call fails.
C34_StreamingImpliesComponentEnabled ==
    nfail = 0 => \A p \in CodecPorts : PortStreaming(p) => component["codec"]


(* --------------------------- the EOS buffer ---------------------------- *)

\* The remote side holds the codec's EOS buffer.
EosBufferHeld == eos_with_vpu > 0

\* C35 (as claimed): the EOS buffer is never submitted while a previous
\* submission of it is in flight, and eos_buffer_in_use is true exactly
\* when the remote side holds the buffer; stated for the runs in which no
\* remote call has failed.
C35_EosBufferSingleUse ==
    nfail = 0 => (/\ eos_with_vpu <= 1
                  /\ eos_buffer_in_use <=> EosBufferHeld)


(* ---------------- concurrent stops of the ISP nodes -------------------- *)

\* stop_streaming of ISP node p finds num_streaming at zero and disables
\* the component in this step.
IspDisablesComponent(p) ==
    /\ p \in IspPorts
    /\ spc[p] = "check" /\ spc'[p] = "wait_all"
    /\ num_streaming = 0

\* C36 (as claimed): with ISP nodes stopping concurrently the component is
\* disabled exactly once: a stop that disables it finds it enabled (no
\* other stop has disabled it already), and no other node is streaming.
C36_IspComponentDisabledOnce ==
    [][\A p \in IspPorts :
         IspDisablesComponent(p)
         => (/\ component["isp"]
             /\ \A q \in IspPorts \ {p} : spc[q] # "on")]_vars


(* ------------------ the device-wide frame completion ------------------- *)

\* stop_streaming of ISP node p is in its drain loop, blocked in
\* wait_for_completion_timeout(&dev->frame_cmplt).
IspDrainWaiter(p) == p \in IspPorts /\ spc[p] = "wait"

\* stop_streaming of ISP node q executes init_completion(&dev->frame_cmplt)
\* in this step.
IspReinitsCompletion(q) ==
    /\ q \in IspPorts
    /\ spc[q] = "on" /\ spc'[q] = "disable"
    /\ frame_cmplt'["dev"] = 0

\* C37 (as claimed): the drain wait of one ISP node's stop_streaming is
\* unaffected by the other nodes: while a waiter is blocked on the
\* device-wide frame_cmplt, no other node's stop_streaming re-initialises
\* it.
C37_IspDrainWaitUndisturbed ==
    [][\A p \in IspPorts : \A q \in IspPorts \ {p} :
         IspDrainWaiter(p) => ~IspReinitsCompletion(q)]_vars


(* ----------------------- a failed dequeue ------------------------------ *)

\* A callback whose vchi_msg_dequeue failed and which writes the result
\* slot, signals the completion or invokes the playback callback.
DequeueFailChanges ==
    /\ DispatchDequeueFail
    /\ <<result, done, fifo>>' # <<result, done, fifo>>

\* C38 (as claimed): when the dequeue fails in the dispatch callback, the
\* callback changes no channel state: in no state does such a callback
\* have a step that writes the result, signals a waiter or invokes the
\* playback callback.
C38_FailedDequeueIsNoOp == ~ENABLED DequeueFailChanges


(* ----------------------------- close ----------------------------------- *)

\* bcm2835_audio_close of thread t is about to return.
CloseReturns(t) == pc[t] = "return" /\ frame[t].api = "close"

\* C39 (as claimed): bcm2835_audio_close always tears the channel down,
\* whether its CLOSE call succeeded, failed or timed out: when it returns
\* the service is closed, the stream's instance reference is cleared and
\* the instance has been freed once; it returns the CLOSE call's error.
C39_CloseAlwaysTearsDown ==
    \A t \in Threads :
        CloseReturns(t)
        => (/\ service = "closed"
            /\ instance = "NULL"
            /\ kfree_count = 1
            /\ frame[t].err \in {0, -EIO, -ETIMEDOUT})

=============================================================================
